---- MODULE Spec2Model ----
(***************************************************************************)
(* State-machine model of the CloudStorage backend: chunked upload engine, *)
(* download counters, quota accounting, folder tree and rate limiter.      *)
(* Every request handler is split at its await points, so that handlers    *)
(* of concurrent requests interleave exactly where the event loop may      *)
(* switch between them.                                                    *)
(***************************************************************************)
EXTENDS Integers, Sequences, FiniteSets, TLC

(* ---------------------------- bounds ----------------------------------- *)
MaxSize == 3
MaxTime == 1
MaxFiles == 2
MaxRequests == 3
MaxMillis == 5
MaxChecks == 4
MaxMoves == 3
MaxHeader == 4
MaxArrivals == 11
MaxItems == 3
MaxHandlers == 2
MaxMigrations == 3

(* ------------------- configuration (scaled values) --------------------- *)
ChunkSize == 2
SessionTtl == 1
ExpiryDaysFree == 2
ExtensionDays == 2
MetadataCacheTtl == 1
WindowSeconds == 2
MsPerSecond == 2
Limit == 2
FreeMaxStorage == 6
FreeMaxFileSize == 4
FreeMaxFiles == 3
Unlimited == -1
BlockScore == 100
ChunkPoints == 10
TraversalPoints == 25
AbuseTtl == 2
OldSessionDays == 7
BatchSize == 2
HotToColdDays == 1
ColdToHotDownloads == 1
RecentDays == 7

NoDate == -9
NoFolder == 0

Users == {"u1", "u2"}
\* the principal that uploads; the other user only calls in as a stranger
Uploaders == {"u1"}
RoleOf == [u \in Users |-> IF u = "u1" THEN "free" ELSE "admin"]
\* request slots: two requests may be in flight at the same time
Procs == {"r1", "r2"}

LiveStatuses == {"pending", "uploading", "assembling"}
TerminalStatuses == {"completed", "failed", "expired"}

VARIABLES now, nowMs, last, moves, deletes,
          sess, sessKey, chunksKey, staged, proc, worker,
          blobs, files, quota,
          metaCache, cachedTier, task, prepared,
          folders, mv,
          zset, answers,
          rangeHeader, rangeSize, parsed,
          abuse, gate, arrivals,
          batch, coldBlobs, mig, migrations,
          wk, runs, pending, failing, server, inflight,
          sessionDoc, tempDir, sweeper,
          bandwidth, bwCall

vars == <<now, nowMs, last, moves, deletes, sess, sessKey, chunksKey, staged, proc, worker,
          blobs, files, quota, metaCache, cachedTier, task, prepared,
          folders, mv,
          zset, answers, rangeHeader, rangeSize, parsed,
          abuse, gate, arrivals, batch, coldBlobs, mig, migrations,
          wk, runs, pending, failing, server, inflight, sessionDoc, tempDir, sweeper, bandwidth, bwCall>>

\* the state of the upload engine, of the file side, of the folder tree and
\* of the rate limiter
uploadVars == <<sess, sessKey, chunksKey, staged, proc, worker>>
fileVars == <<metaCache, cachedTier, task, prepared>>
folderVars == <<folders, mv>>
limiterVars == <<zset, answers>>

\* a call of parseRange: its two arguments and what it returned
rangeVars == <<rangeHeader, rangeSize, parsed>>

\* the abuse counter of one IP address, the requests of that address that
\* are on their way through the middleware, and how many have arrived
abuseVars == <<abuse, gate, arrivals>>

\* the run of a lifecycle worker over its batch, the blobs of the cold
\* tier, and the migrations in flight and begun
workerVars == <<batch, coldBlobs, mig, migrations>>

\* the timer of a lifecycle worker, the invocations of its run() that are
\* in flight, the items its query selects, and the items on which the work
\* fails whenever it is tried
timerVars == <<wk, runs, pending, failing>>

\* the durable record of a session and its staging directory as the
\* cleanup passes see them, and where the two cleanup passes are
sweepVars == <<sessionDoc, tempDir, sweeper>>

\* usage.bandwidth of a quota document, and a call of addBandwidth: its
\* arguments, the document it found and whether it has returned
bandwidthVars == <<bandwidth, bwCall>>

\* the life of the process
\* the Node process with its HTTP server and its two store connections,
\* and the number of request handlers in flight
serverVars == <<server, inflight>>

lifeVars == <<timerVars, sweepVars, bandwidthVars, serverVars>>

(* ------------------------- pure helpers -------------------------------- *)

\* Math.ceil(a / b) for b > 0 (JavaScript yields -0 for -b < a < 0, which
\* compares equal to 0)
CeilDiv(a, b) == -((-a) \div b)

MaxChunks == CeilDiv(MaxSize, ChunkSize)
ChunkIdx == 0..(MaxChunks - 1)

\* JavaScript remainder: the result takes the sign of the dividend
JsRem(a, b) == IF a >= 0 THEN a % b ELSE -((-a) % b)

\* an expected size that takes every chunk for a full one
fullChunkSize(chunkIndex, totalChunks, chunkSize, totalSize) == chunkSize

\* UploadService._getExpectedChunkSize
getExpectedChunkSize(chunkIndex, totalChunks, chunkSize, totalSize) ==
    IF chunkIndex = totalChunks - 1
    THEN LET remainder == JsRem(totalSize, chunkSize)
         IN  IF remainder = 0 THEN chunkSize ELSE remainder
    ELSE chunkSize

RECURSIVE SumTo(_, _)
SumTo(f, n) == IF n <= 0 THEN 0 ELSE f[n - 1] + SumTo(f, n - 1)

\* a staged chunk is represented by its length; 0 stands for "not staged"
NoChunk == 0

\* sha256 is modelled as injective: the digest of a blob is its content,
\* here the sequence of the lengths of the chunks it was assembled from
ContentOf(st, n) == [i \in 1..n |-> st[i - 1]]

\* the digest of the file the client means to upload
IntendedContent(totalSize) ==
    LET n == CeilDiv(totalSize, ChunkSize)
    IN  [i \in 1..n |-> getExpectedChunkSize(i - 1, n, ChunkSize, totalSize)]

\* a digest that no upload produces ("00..00")
BogusContent == <<0>>

NoHash == [given |-> FALSE, value |-> <<>>]

HashInputs == {"none", "good", "bad"}

ExpectedHashOf(h, totalSize) ==
    CASE h = "none" -> NoHash
      [] h = "good" -> [given |-> TRUE, value |-> IntendedContent(totalSize)]
      [] OTHER -> [given |-> TRUE, value |-> BogusContent]

\* verifyHash(actual, expected)
verifyHash(actual, expected) == expected.given /\ actual = expected.value

(* ------------------------- Range headers ------------------------------- *)

\* a header is written as whether it starts with 'bytes=' and the characters
\* that follow; "x" stands for any character that is neither a digit nor a
\* dash
RangeChars == {"-", "0", "1", "2", "3", "x"}

DigitChars == {"0", "1", "2", "3"}

DigitValue(c) == CASE c = "0" -> 0 [] c = "1" -> 1 [] c = "2" -> 2 [] OTHER -> 3

\* the empty header, which is the same as no header
NoHeader == [bytes |-> FALSE, range |-> <<>>]

\* what parseInt returns when the text does not start with a digit
NaN == -1

\* parseInt(text, 10) of a text without sign and blanks: the value of the
\* leading digits, NaN if there is none
RECURSIVE leadingDigits(_, _, _)
leadingDigits(text, value, seen) ==
    IF text = <<>> \/ Head(text) \notin DigitChars
    THEN IF seen THEN value ELSE NaN
    ELSE leadingDigits(Tail(text), 10 * value + DigitValue(Head(text)), TRUE)

parseInt(text) == leadingDigits(text, 0, FALSE)

\* range.split('-'): the text before the first dash and what follows it
RECURSIVE beforeDash(_)
beforeDash(text) ==
    IF text = <<>> \/ Head(text) = "-" THEN <<>>
    ELSE <<Head(text)>> \o beforeDash(Tail(text))

RECURSIVE afterDash(_)
afterDash(text) ==
    IF text = <<>> THEN <<>>
    ELSE IF Head(text) = "-" THEN Tail(text)
    ELSE afterDash(Tail(text))

\* parts[0] and parts[1] of the split; parts[1] is undefined without a dash
\* and the test of parts[1] takes undefined and the empty text alike
splitParts(text) ==
    [first |-> beforeDash(text), second |-> beforeDash(afterDash(text))]

NoRange == [ok |-> FALSE, start |-> 0, end |-> 0]

\* the validation at the end of parseRange
validRange(start, end, size) ==
    IF start < 0 \/ end >= size \/ start > end
    THEN NoRange
    ELSE [ok |-> TRUE, start |-> start, end |-> end]

\* parseRange(rangeHeader, fileSize) of utils/stream.js; NoRange is null
parseRange(header, size) ==
    IF ~header.bytes
    THEN NoRange
    ELSE LET parts == splitParts(header.range)
             start == parseInt(parts.first)
             end == IF parts.second # <<>> THEN parseInt(parts.second)
                    ELSE size - 1
         IN  IF end = NaN
             THEN NoRange
             ELSE IF start = NaN
             THEN validRange(size - end, size - 1, size)
             ELSE validRange(start, end, size)

NotParsed == [done |-> FALSE, range |-> NoRange]

(* --------------------------- records ----------------------------------- *)

NoSession ==
    [exists |-> FALSE, userId |-> "u1", totalSize |-> 0, totalChunks |-> 0,
     expectedHash |-> NoHash, completedChunks |-> [i \in ChunkIdx |-> 0],
     status |-> "pending",
     error |-> "none", fileId |-> 0, expiresAt |-> 0]

NoKey ==
    [present |-> FALSE, exp |-> 0, userId |-> "u1", totalSize |-> 0,
     totalChunks |-> 0, expectedHash |-> NoHash, status |-> "pending"]

NoChunksKey == [members |-> {}, exp |-> 0]

IdleProc ==
    [op |-> "none", pc |-> "idle", user |-> "u1", idx |-> 0, len |-> 0,
     totalChunks |-> 0, expectedHash |-> NoHash,
     docFound |-> FALSE, docIdx |-> {}, docStatus |-> "pending",
     rsize |-> 0, rhash |-> <<>>, fileId |-> 0, err |-> "none"]

IdleWorker == [pc |-> "idle"]

NoQuota ==
    [exists |-> FALSE, storage |-> 0, files |-> 0, isOverQuota |-> FALSE]

NoResponse == [op |-> "none", code |-> "none"]

\* slots for the requests and background updates of the file side, and for
\* the folder requests
Tasks == {"t1", "t2"}
Movers == {"m1", "m2"}

\* a request without a token has no user; a missing password is falsy
Anonymous == "anonymous"
NoPassword == ""
Passwords == {"p", "q"}
Callers == Users \cup {Anonymous}

NoFile ==
    [exists |-> FALSE, userId |-> "u1", size |-> 0, hash |-> <<>>,
     folderId |-> NoFolder, expiresAt |-> NoDate, isDeleted |-> FALSE,
     downloads |-> 0, lastDownloadAt |-> NoDate, lastAccessAt |-> NoDate,
     isPublic |-> TRUE, password |-> NoPassword,
     storageTier |-> "hot", migrationStatus |-> "none"]

\* a slot of the file side: the operation, its position, the file it is
\* about and what it has loaded (of the File document the fields it assigns
\* from, and the quota document)
IdleTask ==
    [op |-> "none", pc |-> "idle", file |-> 0, downloads |-> 0,
     expiresAt |-> NoDate, q |-> NoQuota]

FolderIds == {1, 2, 3}

NoFolderDoc == [parentId |-> NoFolder, name |-> "", path |-> <<>>, depth |-> 0]

IdleMover ==
    [pc |-> "idle", folder |-> 0, newParentId |-> NoFolder,
     doc |-> NoFolderDoc, path |-> <<>>]

NoZset == [scores |-> <<>>, exp |-> 0]

(* ----------------------- volatile store -------------------------------- *)

\* a key with a TTL is gone once the TTL has run out
KeyLive(k) == k.present /\ now < k.exp

ChunkMembers == IF now < chunksKey.exp THEN chunksKey.members ELSE {}

\* UploadService._cacheSession: setex with TTL = sessionTtl
cacheSession(s) ==
    [present |-> TRUE, exp |-> now + SessionTtl, userId |-> s.userId,
     totalSize |-> s.totalSize, totalChunks |-> s.totalChunks,
     expectedHash |-> s.expectedHash, status |-> s.status]

\* UploadService._getSession: the cache first, then the durable store
DbLive ==
    /\ sess.exists
    /\ sess.expiresAt > now
    /\ sess.status \in {"pending", "uploading"}

SessionFound == KeyLive(sessKey) \/ DbLive

SessionView ==
    IF KeyLive(sessKey)
    THEN [userId |-> sessKey.userId, totalSize |-> sessKey.totalSize,
          totalChunks |-> sessKey.totalChunks,
          expectedHash |-> sessKey.expectedHash]
    ELSE [userId |-> sess.userId, totalSize |-> sess.totalSize,
          totalChunks |-> sess.totalChunks,
          expectedHash |-> sess.expectedHash]

\* the session key after _getSession (a durable hit re-caches the session)
getSession ==
    IF KeyLive(sessKey) THEN sessKey
    ELSE IF DbLive THEN cacheSession(sess)
    ELSE sessKey

\* UploadService._isChunkUploaded: sismember on the chunk set
isChunkUploaded(chunkIndex) == chunkIndex \in ChunkMembers

\* UploadService._markChunkComplete: sadd + expire
markChunkCompleteVolatile(chunkIndex) ==
    [members |-> ChunkMembers \cup {chunkIndex}, exp |-> now + SessionTtl]

\* a cache eviction that forgets the chunk set
deleteSessionKeyOnly ==
    /\ sessKey' = NoKey
    /\ UNCHANGED chunksKey

\* UploadService._deleteSessionCache: del of both keys
deleteSessionCache ==
    /\ sessKey' = NoKey
    /\ chunksKey' = NoChunksKey

(* ------------------------ quota accountant ----------------------------- *)

\* Quota.getEffectiveLimit with limits.* = null: the role default
getEffectiveLimit(u, limitType) ==
    IF RoleOf[u] = "free"
    THEN CASE limitType = "maxStorage" -> FreeMaxStorage
           [] limitType = "maxFileSize" -> FreeMaxFileSize
           [] OTHER -> FreeMaxFiles
    ELSE Unlimited

\* Quota.getOrCreate followed by a read of the usage
getOrCreate(q) == IF q.exists THEN q ELSE [NoQuota EXCEPT !.exists = TRUE]

\* Quota.canUpload(fileSize).reasons: the codes in the order of the checks
canUploadReasons(u, q, fileSize) ==
    LET maxStorage == getEffectiveLimit(u, "maxStorage")
        maxFileSize == getEffectiveLimit(u, "maxFileSize")
        maxFiles == getEffectiveLimit(u, "maxFiles")
    IN  (IF maxFileSize # -1 /\ fileSize > maxFileSize
         THEN <<"FILE_TOO_LARGE">> ELSE <<>>)
        \o (IF maxStorage # -1 /\ q.storage + fileSize > maxStorage
            THEN <<"STORAGE_EXCEEDED">> ELSE <<>>)
        \o (IF maxFiles # -1 /\ q.files >= maxFiles
            THEN <<"FILE_COUNT_EXCEEDED">> ELSE <<>>)

\* a check of the file count that lets one file more through
canUploadOneMore(u, q, fileSize) ==
    LET maxStorage == getEffectiveLimit(u, "maxStorage")
        maxFileSize == getEffectiveLimit(u, "maxFileSize")
        maxFiles == getEffectiveLimit(u, "maxFiles")
    IN  /\ ~(maxFileSize # -1 /\ fileSize > maxFileSize)
        /\ ~(maxStorage # -1 /\ q.storage + fileSize > maxStorage)
        /\ ~(maxFiles # -1 /\ q.files > maxFiles)

\* Quota.canUpload(fileSize).allowed
canUpload(u, q, fileSize) ==
    LET maxStorage == getEffectiveLimit(u, "maxStorage")
        maxFileSize == getEffectiveLimit(u, "maxFileSize")
        maxFiles == getEffectiveLimit(u, "maxFiles")
    IN  /\ ~(maxFileSize # -1 /\ fileSize > maxFileSize)
        /\ ~(maxStorage # -1 /\ q.storage + fileSize > maxStorage)
        /\ ~(maxFiles # -1 /\ q.files >= maxFiles)

\* Quota.addFile(fileSize)
addFile(u, q, fileSize) ==
    LET maxStorage == getEffectiveLimit(u, "maxStorage")
        st == q.storage + fileSize
    IN  [q EXCEPT !.storage = st, !.files = q.files + 1,
                  !.isOverQuota = IF maxStorage # -1 /\ st > maxStorage
                                  THEN TRUE ELSE q.isOverQuota]

Max(a, b) == IF a >= b THEN a ELSE b

\* Quota.removeFile(fileSize)
removeFile(u, q, fileSize) ==
    LET maxStorage == getEffectiveLimit(u, "maxStorage")
        st == Max(0, q.storage - fileSize)
    IN  [q EXCEPT !.storage = st, !.files = Max(0, q.files - 1),
                  !.isOverQuota = IF maxStorage = -1 \/ st <= maxStorage
                                  THEN FALSE ELSE q.isOverQuota]

(* ------------------------- responses ----------------------------------- *)

\* the response sent by the step that leads to the next state, if any
Respond(o, c) == last' = [op |-> o, code |-> c]

Silent == last' = NoResponse

Finish(p) == proc' = [proc EXCEPT ![p] = IdleProc]

(* ========================= upload engine =============================== *)

TotalSizes == {-1} \cup (0..MaxSize)
ChunkInputs == (-1)..MaxChunks
ChunkLens == 0..ChunkSize

EmptyStaging == [i \in ChunkIdx |-> NoChunk]

\* completedChunks is kept as the number of entries per index (the order of
\* the entries in the array is never read)
NoCompletedChunks == [i \in ChunkIdx |-> 0]

DocIndices(s) == {i \in ChunkIdx : s.completedChunks[i] > 0}

\* uploadController.initUpload + UploadService.initializeUpload; the body
\* carries the size as a number or as text, and !size is true of the
\* number 0 but not of the text "0". expiresAt is computed before
\* UploadSession.create and the TTL of the cache entry starts at the setex
\* that follows it: d is the time the create takes
initializeUpload(u, size, asText, h, d) ==
    /\ ~sess.exists
    /\ now + d <= MaxTime
    /\ IF size = 0 /\ ~asText
       THEN /\ Respond("init", "VALIDATION_ERROR")
            /\ UNCHANGED <<now, sess, sessKey, quota>>
       ELSE LET q == getOrCreate(quota[u])
            IN  /\ quota' = [quota EXCEPT ![u] = q]
                /\ IF ~canUpload(u, q, size)
                   THEN /\ Respond("init", "VALIDATION_ERROR")
                        /\ UNCHANGED <<now, sess, sessKey>>
                   ELSE LET s == [exists |-> TRUE, userId |-> u,
                                  totalSize |-> size,
                                  totalChunks |-> CeilDiv(size, ChunkSize),
                                  expectedHash |-> ExpectedHashOf(h, size),
                                  completedChunks |-> NoCompletedChunks,
                                  status |-> "pending", error |-> "none",
                                  fileId |-> 0,
                                  expiresAt |-> now + SessionTtl]
                        IN  /\ sess' = s
                            /\ now' = now + d
                            /\ sessKey' = [cacheSession(s) EXCEPT
                                              !.exp = now' + SessionTtl]
                            /\ Respond("init", "created")
    /\ UNCHANGED <<nowMs, moves, deletes, chunksKey, staged, blobs, files, proc, worker>>
    /\ UNCHANGED <<fileVars, folderVars, limiterVars, rangeVars, abuseVars, workerVars, lifeVars>>

\* uploadController.uploadChunk + UploadService.uploadChunk up to the
\* validation of the chunk
uploadChunkBegin(p, i, len, hashOk) ==
    /\ proc[p].pc = "idle"
    /\ IF len = 0
       THEN /\ Respond("chunk", "VALIDATION_ERROR")
            /\ UNCHANGED <<sessKey, proc>>
       ELSE /\ sessKey' = getSession
            /\ IF ~SessionFound
               THEN Respond("chunk", "SESSION_EXPIRED") /\ UNCHANGED proc
               ELSE IF i < 0 \/ i >= SessionView.totalChunks
               THEN Respond("chunk", "CHUNK_VALIDATION_ERROR") /\ UNCHANGED proc
               ELSE IF isChunkUploaded(i)
               THEN Respond("chunk", "already_uploaded") /\ UNCHANGED proc
               ELSE IF ~hashOk
               THEN Respond("chunk", "CHUNK_VALIDATION_ERROR") /\ UNCHANGED proc
               ELSE IF len # getExpectedChunkSize(i, SessionView.totalChunks,
                                                   ChunkSize, SessionView.totalSize)
               THEN Respond("chunk", "CHUNK_VALIDATION_ERROR") /\ UNCHANGED proc
               ELSE /\ proc' = [proc EXCEPT ![p] =
                                  [IdleProc EXCEPT !.op = "chunk", !.pc = "write",
                                                   !.idx = i, !.len = len]]
                    /\ Silent
    /\ UNCHANGED <<now, nowMs, moves, deletes, sess, chunksKey, staged, blobs, files, quota, worker>>
    /\ UNCHANGED <<fileVars, folderVars, limiterVars, rangeVars, abuseVars, workerVars, lifeVars>>

\* storageProvider.writeChunk, then this._markChunkComplete
uploadChunkWrite(p) ==
    /\ proc[p].op = "chunk" /\ proc[p].pc = "write"
    /\ staged' = [staged EXCEPT ![proc[p].idx] = proc[p].len]
    /\ chunksKey' = markChunkCompleteVolatile(proc[p].idx)
    /\ proc' = [proc EXCEPT ![p].pc = "find"]
    /\ Silent
    /\ UNCHANGED <<now, nowMs, moves, deletes, sess, sessKey, blobs, files, quota, worker>>
    /\ UNCHANGED <<fileVars, folderVars, limiterVars, rangeVars, abuseVars, workerVars, lifeVars>>

\* UploadSession.findOne({ sessionId })
uploadChunkFind(p) ==
    /\ proc[p].op = "chunk" /\ proc[p].pc = "find"
    /\ proc' = [proc EXCEPT ![p].pc = "save",
                            ![p].docFound = sess.exists,
                            ![p].docIdx = DocIndices(sess),
                            ![p].docStatus = sess.status]
    /\ Silent
    /\ UNCHANGED <<now, nowMs, moves, deletes, sess, sessKey, chunksKey, staged, blobs, files, quota,
                   worker>>
    /\ UNCHANGED <<fileVars, folderVars, limiterVars, rangeVars, abuseVars, workerVars, lifeVars>>

\* uploadSessionSchema.methods.markChunkComplete on the loaded document:
\* the membership test runs on the loaded copy; save() sends a $push of the
\* new entry and a $set of the paths that were modified
markChunkComplete(p, s) ==
    IF ~proc[p].docFound \/ ~s.exists \/ proc[p].idx \in proc[p].docIdx
    THEN s
    ELSE [s EXCEPT !.completedChunks[proc[p].idx] = @ + 1,
                   !.status = IF proc[p].docStatus # "uploading"
                              THEN "uploading" ELSE s.status]

\* dbSession.markChunkComplete, this._getProgress and the response; a null
\* progress makes the read of progress.percentage throw
uploadChunkSave(p) ==
    /\ proc[p].op = "chunk" /\ proc[p].pc = "save"
    /\ sess' = markChunkComplete(p, sess)
    /\ LET cacheHit == KeyLive(sessKey)
           dbLive == sess'.exists /\ sess'.expiresAt > now
                     /\ sess'.status \in {"pending", "uploading"}
       IN  /\ sessKey' = IF cacheHit THEN sessKey
                         ELSE IF dbLive THEN cacheSession(sess') ELSE sessKey
           /\ Respond("chunk", IF cacheHit \/ dbLive
                               THEN "uploaded" ELSE "INTERNAL_ERROR")
    /\ Finish(p)
    /\ UNCHANGED <<now, nowMs, moves, deletes, chunksKey, staged, blobs, files, quota, worker>>
    /\ UNCHANGED <<fileVars, folderVars, limiterVars, rangeVars, abuseVars, workerVars, lifeVars>>

\* completes in flight, each of which may still create a File record
InFlightCompletes == Cardinality({q \in Procs : proc[q].op = "complete"})

\* UploadService._getCompletedChunks: smembers of the chunk set
getCompletedChunks == ChunkMembers

\* the completeness check written with the wrong comparison
allChunksUploadedOrFewer(totalChunks) ==
    Cardinality(getCompletedChunks) <= totalChunks

\* completedChunks.length !== session.totalChunks, negated
allChunksUploaded(totalChunks) == Cardinality(getCompletedChunks) = totalChunks

\* UploadService.completeUpload up to the completeness check
completeUploadBegin(p, u) ==
    /\ proc[p].pc = "idle"
    /\ Len(files) + InFlightCompletes < MaxFiles
    /\ sessKey' = getSession
    /\ IF ~SessionFound
       THEN Respond("complete", "SESSION_EXPIRED") /\ UNCHANGED proc
       ELSE IF SessionView.userId # u
       THEN Respond("complete", "VALIDATION_ERROR") /\ UNCHANGED proc
       ELSE IF ~allChunksUploaded(SessionView.totalChunks)
       THEN Respond("complete", "UPLOAD_ERROR") /\ UNCHANGED proc
       ELSE /\ proc' = [proc EXCEPT ![p] =
                          [IdleProc EXCEPT !.op = "complete",
                                           !.pc = "startAssembly",
                                           !.user = u,
                                           !.totalChunks = SessionView.totalChunks,
                                           !.expectedHash = SessionView.expectedHash]]
            /\ Silent
    /\ UNCHANGED <<now, nowMs, moves, deletes, sess, chunksKey, staged, blobs, files, quota, worker>>
    /\ UNCHANGED <<fileVars, folderVars, limiterVars, rangeVars, abuseVars, workerVars, lifeVars>>

\* uploadSessionSchema.methods.startAssembly
startAssembly(s) == [s EXCEPT !.status = "assembling"]

\* UploadSession.findOne + dbSession.startAssembly()
completeUploadStartAssembly(p) ==
    /\ proc[p].op = "complete" /\ proc[p].pc = "startAssembly"
    /\ sess' = IF sess.exists THEN startAssembly(sess) ELSE sess
    /\ proc' = [proc EXCEPT ![p].pc = "assemble", ![p].docFound = sess.exists]
    /\ Silent
    /\ UNCHANGED <<now, nowMs, moves, deletes, sessKey, chunksKey, staged, blobs, files, quota, worker>>
    /\ UNCHANGED <<fileVars, folderVars, limiterVars, rangeVars, abuseVars, workerVars, lifeVars>>

\* StorageBackend.assembleChunks: every chunk 0..totalChunks-1 must be staged
CanAssemble(n) == \A i \in 0..(n - 1) : i \in ChunkIdx /\ staged[i] # NoChunk

\* StorageBackend.assembleChunks: the size of the assembled blob
AssembledSize(n) == SumTo(staged, n)

\* storageProvider.assembleChunks and the verification of the final hash
\* (a blob that fails the verification is deleted again)
completeUploadAssemble(p, ioFail) ==
    /\ proc[p].op = "complete" /\ proc[p].pc = "assemble"
    /\ LET n == proc[p].totalChunks
       IN  IF ioFail \/ ~CanAssemble(n)
           THEN proc' = [proc EXCEPT ![p].pc = "markFailed",
                                     ![p].err = "STORAGE_ERROR"]
           ELSE IF proc[p].expectedHash.given
                   /\ ~verifyHash(ContentOf(staged, n), proc[p].expectedHash)
           THEN proc' = [proc EXCEPT ![p].pc = "markFailed",
                                     ![p].err = "HASH_MISMATCH"]
           ELSE proc' = [proc EXCEPT ![p].pc = "createFile",
                                     ![p].rsize = AssembledSize(n),
                                     ![p].rhash = ContentOf(staged, n)]
    /\ Silent
    /\ UNCHANGED <<now, nowMs, moves, deletes, sess, sessKey, chunksKey, staged, blobs, files, quota,
                   worker>>
    /\ UNCHANGED <<fileVars, folderVars, limiterVars, rangeVars, abuseVars, workerVars, lifeVars>>

\* UploadService._getExpiryDate
getExpiryDate(u) ==
    IF RoleOf[u] \in {"premium", "admin"} THEN NoDate ELSE now + ExpiryDaysFree

\* the File record of a finished upload
NewFile(u, size, hash) ==
    [NoFile EXCEPT !.exists = TRUE, !.userId = u, !.size = size,
                   !.hash = hash, !.expiresAt = getExpiryDate(u),
                   !.lastAccessAt = now]

\* File.create, Quota.getOrCreate and quota.addFile; the blob written by
\* assembleChunks is keyed by the record it belongs to
completeUploadCreateFile(p) ==
    /\ proc[p].op = "complete" /\ proc[p].pc = "createFile"
    /\ files' = Append(files, NewFile(proc[p].user, proc[p].rsize, proc[p].rhash))
    /\ blobs' = blobs \cup {Len(files) + 1}
    /\ quota' = [quota EXCEPT ![proc[p].user] =
                    addFile(proc[p].user, getOrCreate(quota[proc[p].user]),
                            proc[p].rsize)]
    /\ proc' = [proc EXCEPT ![p].pc = "markCompleted", ![p].fileId = Len(files) + 1]
    /\ Silent
    /\ UNCHANGED <<now, nowMs, moves, deletes, sess, sessKey, chunksKey, staged, worker>>
    /\ UNCHANGED <<fileVars, folderVars, limiterVars, rangeVars, abuseVars, workerVars, lifeVars>>

\* uploadSessionSchema.methods.markCompleted
markCompleted(s, fileId) == [s EXCEPT !.status = "completed", !.fileId = fileId]

\* dbSession.markCompleted, this._deleteSessionCache and the response
completeUploadMarkCompleted(p) ==
    /\ proc[p].op = "complete" /\ proc[p].pc = "markCompleted"
    /\ sess' = IF proc[p].docFound /\ sess.exists
               THEN markCompleted(sess, proc[p].fileId) ELSE sess
    /\ deleteSessionCache
    /\ Respond("complete", "ok")
    /\ Finish(p)
    /\ UNCHANGED <<now, nowMs, moves, deletes, staged, blobs, files, quota, worker>>
    /\ UNCHANGED <<fileVars, folderVars, limiterVars, rangeVars, abuseVars, workerVars, lifeVars>>

\* markFailed that records no error code
markFailedWithoutCode(s, code) == [s EXCEPT !.status = "failed"]

\* uploadSessionSchema.methods.markFailed
markFailed(s, code) == [s EXCEPT !.status = "failed", !.error = code]

\* catch block: dbSession.markFailed(error), storageProvider.deleteChunks,
\* rethrow
completeUploadMarkFailed(p) ==
    /\ proc[p].op = "complete" /\ proc[p].pc = "markFailed"
    /\ sess' = IF proc[p].docFound /\ sess.exists
               THEN markFailed(sess, proc[p].err) ELSE sess
    /\ staged' = EmptyStaging
    /\ Respond("complete", proc[p].err)
    /\ Finish(p)
    /\ UNCHANGED <<now, nowMs, moves, deletes, sessKey, chunksKey, blobs, files, quota, worker>>
    /\ UNCHANGED <<fileVars, folderVars, limiterVars, rangeVars, abuseVars, workerVars, lifeVars>>

\* UploadService.abortUpload up to the ownership check
abortUploadBegin(p, u) ==
    /\ proc[p].pc = "idle"
    /\ sessKey' = getSession
    /\ IF ~SessionFound
       THEN Respond("abort", "ok") /\ UNCHANGED proc
       ELSE IF SessionView.userId # u
       THEN Respond("abort", "VALIDATION_ERROR") /\ UNCHANGED proc
       ELSE /\ proc' = [proc EXCEPT ![p] =
                          [IdleProc EXCEPT !.op = "abort", !.pc = "deleteChunks",
                                           !.user = u]]
            /\ Silent
    /\ UNCHANGED <<now, nowMs, moves, deletes, sess, chunksKey, staged, blobs, files, quota, worker>>
    /\ UNCHANGED <<fileVars, folderVars, limiterVars, rangeVars, abuseVars, workerVars, lifeVars>>

\* storageProvider.deleteChunks
abortUploadDeleteChunks(p) ==
    /\ proc[p].op = "abort" /\ proc[p].pc = "deleteChunks"
    /\ staged' = EmptyStaging
    /\ proc' = [proc EXCEPT ![p].pc = "markFailed"]
    /\ Silent
    /\ UNCHANGED <<now, nowMs, moves, deletes, sess, sessKey, chunksKey, blobs, files, quota, worker>>
    /\ UNCHANGED <<fileVars, folderVars, limiterVars, rangeVars, abuseVars, workerVars, lifeVars>>

\* UploadSession.findOne + dbSession.markFailed, this._deleteSessionCache
abortUploadMarkFailed(p) ==
    /\ proc[p].op = "abort" /\ proc[p].pc = "markFailed"
    /\ sess' = IF sess.exists THEN markFailed(sess, "ABORTED") ELSE sess
    /\ deleteSessionCache
    /\ Respond("abort", "ok")
    /\ Finish(p)
    /\ UNCHANGED <<now, nowMs, moves, deletes, staged, blobs, files, quota, worker>>
    /\ UNCHANGED <<fileVars, folderVars, limiterVars, rangeVars, abuseVars, workerVars, lifeVars>>

\* UploadService.getUploadStatus: the indices 0..totalChunks-1 that
\* _getCompletedChunks does not return
remainingChunks(totalChunks) ==
    {i \in 0..(totalChunks - 1) : i \notin getCompletedChunks}

\* UploadService.getUploadStatus: the session is resolved (and re-cached on
\* a durable hit); the chunk set is only read
getUploadStatus ==
    /\ sessKey' = getSession
    /\ IF ~SessionFound
       THEN Respond("status", "SESSION_EXPIRED")
       ELSE Respond("status", "ok")
    /\ UNCHANGED <<now, nowMs, moves, deletes, sess, chunksKey, staged, blobs, files, quota, proc, worker>>
    /\ UNCHANGED <<fileVars, folderVars, limiterVars, rangeVars, abuseVars, workerVars, lifeVars>>

\* resumeUpload without the ownership check
resumeUploadByAnyone(u) ==
    /\ sessKey' = getSession
    /\ IF ~SessionFound
       THEN Respond("resume", "SESSION_EXPIRED")
       ELSE Respond("resume", "ok")
    /\ UNCHANGED <<now, nowMs, moves, deletes, sess, chunksKey, staged, blobs, files, quota, proc, worker>>
    /\ UNCHANGED <<fileVars, folderVars, limiterVars, rangeVars, abuseVars, workerVars, lifeVars>>

\* UploadService.resumeUpload: the ownership check, then getUploadStatus
resumeUpload(u) ==
    /\ sessKey' = getSession
    /\ IF ~SessionFound
       THEN Respond("resume", "SESSION_EXPIRED")
       ELSE IF SessionView.userId # u
       THEN Respond("resume", "VALIDATION_ERROR")
       ELSE Respond("resume", "ok")
    /\ UNCHANGED <<now, nowMs, moves, deletes, sess, chunksKey, staged, blobs, files, quota, proc, worker>>
    /\ UNCHANGED <<fileVars, folderVars, limiterVars, rangeVars, abuseVars, workerVars, lifeVars>>

\* the volatile store loses the keys of the session (a restart or an
\* eviction): what _getSession falls back to the durable store for
loseVolatileKeys ==
    /\ sessKey.present \/ chunksKey.members # {}
    /\ sessKey' = NoKey
    /\ chunksKey' = NoChunksKey
    /\ Silent
    /\ UNCHANGED <<now, nowMs, moves, deletes, sess, staged, blobs, files, quota, proc, worker>>
    /\ UNCHANGED <<fileVars, folderVars, limiterVars, rangeVars, abuseVars, workerVars, lifeVars>>

\* UploadSession.findExpiredSessions
findExpiredSessions ==
    sess.exists /\ sess.status \in LiveStatuses /\ sess.expiresAt <= now

\* CleanupWorker.cleanExpiredSessions: the query and deleteChunks of the
\* session it returned
cleanExpiredSessionsFind ==
    /\ worker.pc = "idle"
    /\ findExpiredSessions
    /\ staged' = EmptyStaging
    /\ worker' = [worker EXCEPT !.pc = "save"]
    /\ Silent
    /\ UNCHANGED <<now, nowMs, moves, deletes, sess, sessKey, chunksKey, blobs, files, quota, proc>>
    /\ UNCHANGED <<fileVars, folderVars, limiterVars, rangeVars, abuseVars, workerVars, lifeVars>>

\* session.status = 'expired'; session.save()
cleanExpiredSessionsSave ==
    /\ worker.pc = "save"
    /\ sess' = IF sess.exists THEN [sess EXCEPT !.status = "expired"] ELSE sess
    /\ worker' = [worker EXCEPT !.pc = "idle"]
    /\ Silent
    /\ UNCHANGED <<now, nowMs, moves, deletes, sessKey, chunksKey, staged, blobs, files, quota, proc>>
    /\ UNCHANGED <<fileVars, folderVars, limiterVars, rangeVars, abuseVars, workerVars, lifeVars>>

(* ============================ file side ================================ *)

FileIds == 1..MaxFiles

\* fileSchema.virtual('isExpired') and ExpiryService.isExpired
isExpired(f) == f.expiresAt # NoDate /\ f.expiresAt < now

\* the metadata cache holds file:<id> until its TTL runs out
Cached(id) == now < metaCache[id]

\* DownloadService.getFileMetadata: the storageTier of the metadata, from
\* the cache entry when there is one and from the record otherwise
metadataTier(id) == IF Cached(id) THEN cachedTier[id] ELSE files[id].storageTier

\* User.isAdmin
isAdmin(u) == RoleOf[u] = "admin"

\* File.findById: the schema marks password select: false, so the loaded
\* document has no password
findById(f) == [f EXCEPT !.password = NoPassword]

\* File.findById(id).select('+password')
findByIdWithPassword(f) == f

\* DownloadService.getFileMetadata: the fields of the metadata that the
\* access decision reads
getFileMetadata(f) ==
    [isPublic |-> findById(f).isPublic,
     hasPassword |-> findById(f).password # NoPassword,
     userId |-> findById(f).userId]

\* DownloadService._checkAccess: TRUE when it returns, FALSE when it throws
\* AuthorizationError
checkAccess(metadata, f, userId, password) ==
    IF metadata.isPublic /\ ~metadata.hasPassword THEN TRUE
    ELSE /\ metadata.hasPassword =>
               /\ password # NoPassword
               /\ findByIdWithPassword(f).password = password
         /\ ~metadata.isPublic =>
               /\ userId # Anonymous
               /\ metadata.userId = userId \/ isAdmin(userId)

\* the number of counter updates started so far (the requests of the file
\* side that change the stores are the downloads that start one and the
\* deletes)
RECURSIVE Total(_)
Total(s) == IF s = <<>> THEN 0 ELSE Head(s) + Total(Tail(s))

\* the Range headers of the downloads: none, bytes=0-0 and bytes=2-0
DownloadHeaders ==
    {NoHeader,
     [bytes |-> TRUE, range |-> <<"0", "-", "0">>],
     [bytes |-> TRUE, range |-> <<"2", "-", "0">>]}

\* DownloadService.prepareDownload:
\* getFileMetadata, _checkAccess, parseRange when a Range header is there
\* (a null range is served as the whole file), and for a download without
\* a Range header the start of the counter update that runs after the
\* response
prepareDownload(k, id, u, header, password) ==
    /\ task[k].pc = "idle"
    /\ id \in DOMAIN files
    /\ Total(prepared) + deletes < MaxRequests
    /\ IF ~Cached(id) /\ (files[id].isDeleted \/ isExpired(files[id]))
       THEN /\ Respond("download", "NOT_FOUND")
            /\ UNCHANGED <<metaCache, cachedTier, task, prepared>>
       ELSE /\ metaCache' = IF Cached(id) THEN metaCache
                            ELSE [metaCache EXCEPT ![id] = now + MetadataCacheTtl]
            /\ cachedTier' = IF Cached(id) THEN cachedTier
                             ELSE [cachedTier EXCEPT ![id] = files[id].storageTier]
            /\ IF ~checkAccess(getFileMetadata(files[id]), files[id], u,
                               password)
               THEN /\ Respond("download", "AUTHORIZATION_ERROR")
                    /\ UNCHANGED <<task, prepared>>
               ELSE /\ Respond("download",
                               IF header # NoHeader
                                  /\ parseRange(header, files[id].size).ok
                               THEN "206" ELSE "200")
                    /\ IF header # NoHeader
                       THEN UNCHANGED <<task, prepared>>
                       ELSE /\ task' = [task EXCEPT ![k] =
                                          [IdleTask EXCEPT !.op = "increment",
                                                           !.pc = "find",
                                                           !.file = id]]
                            /\ prepared' = [prepared EXCEPT ![id] = @ + 1]
    /\ UNCHANGED <<now, nowMs, moves, deletes, uploadVars, blobs, files, quota, folderVars, limiterVars, rangeVars, abuseVars, workerVars, lifeVars>>

\* DownloadService._incrementDownload: File.findById
incrementDownloadFind(k) ==
    /\ task[k].op = "increment" /\ task[k].pc = "find"
    /\ task' = [task EXCEPT ![k].pc = "save",
                            ![k].downloads = files[task[k].file].downloads,
                            ![k].expiresAt = files[task[k].file].expiresAt]
    /\ Silent
    /\ UNCHANGED <<now, nowMs, moves, deletes, uploadVars, blobs, files, quota, metaCache, cachedTier, prepared,
                   folderVars, limiterVars, rangeVars, abuseVars, workerVars, lifeVars>>

\* fileSchema.methods.incrementDownload on the loaded document: save() writes
\* the paths the method assigned, computed from the loaded values
incrementDownload(f, downloads, expiresAt) ==
    [f EXCEPT !.downloads = downloads + 1,
              !.lastDownloadAt = now,
              !.lastAccessAt = now,
              !.expiresAt = IF expiresAt # NoDate
                               /\ now + ExtensionDays > expiresAt
                            THEN now + ExtensionDays ELSE f.expiresAt]

\* file.incrementDownload and the invalidation of the cached metadata
incrementDownloadSave(k) ==
    /\ task[k].op = "increment" /\ task[k].pc = "save"
    /\ files' = [files EXCEPT ![task[k].file] =
                     incrementDownload(@, task[k].downloads, task[k].expiresAt)]
    /\ metaCache' = [metaCache EXCEPT ![task[k].file] = 0]
    /\ UNCHANGED cachedTier
    /\ task' = [task EXCEPT ![k] = IdleTask]
    /\ Silent
    /\ UNCHANGED <<now, nowMs, moves, deletes, uploadVars, blobs, quota, prepared, folderVars,
                   limiterVars, rangeVars, abuseVars, workerVars, lifeVars>>

\* DownloadService.deleteFile: File.findById and the ownership check
deleteFile(k, id, u) ==
    /\ task[k].pc = "idle"
    /\ Total(prepared) + deletes < MaxRequests
    /\ deletes' = deletes + 1
    /\ id \in DOMAIN files
    /\ IF files[id].userId # u /\ ~isAdmin(u)
       THEN Respond("delete", "AUTHORIZATION_ERROR") /\ UNCHANGED task
       ELSE /\ task' = [task EXCEPT ![k] =
                          [IdleTask EXCEPT !.op = "delete", !.pc = "softDelete",
                                           !.file = id]]
            /\ Silent
    /\ UNCHANGED <<now, nowMs, moves, uploadVars, blobs, files, quota, metaCache, cachedTier, prepared,
                   folderVars, limiterVars, rangeVars, abuseVars, workerVars, lifeVars>>

\* AdminService.forceDeleteFile: File.findById (the route admits admins only)
forceDeleteFile(k, id) ==
    /\ task[k].pc = "idle"
    /\ Total(prepared) + deletes < MaxRequests
    /\ deletes' = deletes + 1
    /\ id \in DOMAIN files
    /\ task' = [task EXCEPT ![k] =
                  [IdleTask EXCEPT !.op = "forceDelete", !.pc = "softDelete",
                                   !.file = id]]
    /\ Silent
    /\ UNCHANGED <<now, nowMs, moves, uploadVars, blobs, files, quota, metaCache, cachedTier, prepared,
                   folderVars, limiterVars, rangeVars, abuseVars, workerVars, lifeVars>>

\* a query that takes a null expiresAt for a date that has passed
findExpiredFilesWithNull ==
    {id \in DOMAIN files : files[id].expiresAt <= now /\ ~files[id].isDeleted}

\* File.findExpiredFiles
findExpiredFiles ==
    {id \in DOMAIN files : /\ files[id].expiresAt # NoDate
                           /\ files[id].expiresAt <= now
                           /\ ~files[id].isDeleted}

\* ExpiryService.processExpiredBatch for one file of the batch:
\* deleteExpiredFile up to the call of _deleteFile
deleteExpiredFile(k, id) ==
    /\ task[k].pc = "idle"
    /\ Total(prepared) + deletes < MaxRequests
    /\ deletes' = deletes + 1
    /\ id \in findExpiredFiles
    /\ IF ~isExpired(files[id])
       THEN Respond("expire", "NOT_EXPIRED") /\ UNCHANGED task
       ELSE /\ task' = [task EXCEPT ![k] =
                          [IdleTask EXCEPT !.op = "expire", !.pc = "softDelete",
                                           !.file = id]]
            /\ Silent
    /\ UNCHANGED <<now, nowMs, moves, uploadVars, blobs, files, quota, metaCache, cachedTier, prepared,
                   folderVars, limiterVars, rangeVars, abuseVars, workerVars, lifeVars>>

\* fileSchema.methods.softDelete
softDelete(f) == [f EXCEPT !.isDeleted = TRUE]

\* storageProvider.delete (a blob that is already gone is no error) and
\* file.softDelete, as deleteFile, forceDeleteFile and _deleteFile call them
deleteFileSoftDelete(k) ==
    /\ task[k].pc = "softDelete"
    /\ blobs' = blobs \ {task[k].file}
    /\ files' = [files EXCEPT ![task[k].file] = softDelete(@)]
    /\ task' = [task EXCEPT ![k].pc = "getOrCreate"]
    /\ Silent
    /\ UNCHANGED <<now, nowMs, moves, deletes, uploadVars, quota, metaCache, cachedTier, prepared, folderVars,
                   limiterVars, rangeVars, abuseVars, workerVars, lifeVars>>

\* Quota.getOrCreate(file.userId); userId and size of a File record never
\* change, so the loaded document has the values of the stored one
deleteFileGetQuota(k) ==
    /\ task[k].pc = "getOrCreate"
    /\ LET u == files[task[k].file].userId
           q == getOrCreate(quota[u])
       IN  /\ quota' = [quota EXCEPT ![u] = q]
           /\ task' = [task EXCEPT ![k].pc = "removeFile", ![k].q = q]
    /\ Silent
    /\ UNCHANGED <<now, nowMs, moves, deletes, uploadVars, blobs, files, metaCache, cachedTier, prepared,
                   folderVars, limiterVars, rangeVars, abuseVars, workerVars, lifeVars>>

\* save() of a quota document: a path whose value the method did not change
\* is not written
saveQuota(cur, loaded, new) ==
    [cur EXCEPT
       !.storage = IF new.storage = loaded.storage THEN @ ELSE new.storage,
       !.files = IF new.files = loaded.files THEN @ ELSE new.files,
       !.isOverQuota = IF new.isOverQuota = loaded.isOverQuota
                       THEN @ ELSE new.isOverQuota]

\* quota.removeFile(file.size) on the loaded quota, the invalidation of the
\* cached metadata (forceDeleteFile has none) and the response
deleteFileRemoveFile(k) ==
    /\ task[k].pc = "removeFile"
    /\ LET u == files[task[k].file].userId
       IN  quota' = [quota EXCEPT ![u] =
                        saveQuota(@, task[k].q,
                                  removeFile(u, task[k].q,
                                             files[task[k].file].size))]
    /\ metaCache' = IF task[k].op = "forceDelete" THEN metaCache
                    ELSE [metaCache EXCEPT ![task[k].file] = 0]
    /\ UNCHANGED cachedTier
    /\ Respond(task[k].op, "ok")
    /\ task' = [task EXCEPT ![k] = IdleTask]
    /\ UNCHANGED <<now, nowMs, moves, deletes, uploadVars, blobs, files, prepared, folderVars,
                   limiterVars, rangeVars, abuseVars, workerVars, lifeVars>>

(* ============================ folder tree ============================== *)

\* the walk of wouldCreateCircle from parent upwards; on a chain that runs
\* into a cycle without meeting the folder the loop never ends
RECURSIVE walkUp(_, _, _)
walkUp(id, parent, fuel) ==
    IF parent = id THEN "circle"
    ELSE IF folders[parent].parentId = NoFolder THEN "ok"
    ELSE IF fuel = 0 THEN "diverges"
    ELSE walkUp(id, folders[parent].parentId, fuel - 1)

\* folderSchema.methods.wouldCreateCircle
wouldCreateCircle(id, targetParentId) ==
    IF targetParentId = NoFolder THEN "ok"
    ELSE walkUp(id, targetParentId, Cardinality(FolderIds))

\* FolderService.moveFolder up to the check for a duplicate name
moveFolder(k, id, newParentId) ==
    /\ mv[k].pc = "idle"
    /\ moves < MaxMoves
    /\ moves' = moves + 1
    /\ IF newParentId = id
       THEN Respond("moveFolder", "VALIDATION_ERROR") /\ UNCHANGED mv
       ELSE IF wouldCreateCircle(id, newParentId) = "circle"
       THEN Respond("moveFolder", "VALIDATION_ERROR") /\ UNCHANGED mv
       ELSE IF wouldCreateCircle(id, newParentId) = "diverges"
       THEN /\ mv' = [mv EXCEPT ![k].pc = "walking"]
            /\ Silent
       ELSE IF \E g \in FolderIds \ {id} :
                  /\ folders[g].parentId = newParentId
                  /\ folders[g].name = folders[id].name
       THEN Respond("moveFolder", "VALIDATION_ERROR") /\ UNCHANGED mv
       ELSE /\ mv' = [mv EXCEPT ![k] =
                        [IdleMover EXCEPT !.pc = "save", !.folder = id,
                                          !.newParentId = newParentId,
                                          !.doc = folders[id]]]
            /\ Silent
    /\ UNCHANGED <<now, nowMs, deletes, uploadVars, blobs, files, quota, fileVars,
                   folders, limiterVars, rangeVars, abuseVars, workerVars, lifeVars>>

\* the pre-save hook: path and depth of a folder whose parentId was modified
preSave(doc, newParentId) ==
    IF newParentId = doc.parentId THEN doc
    ELSE IF newParentId # NoFolder
    THEN [doc EXCEPT !.parentId = newParentId,
                     !.path = Append(folders[newParentId].path, doc.name),
                     !.depth = folders[newParentId].depth + 1]
    ELSE [doc EXCEPT !.parentId = newParentId,
                     !.path = <<doc.name>>,
                     !.depth = 0]

\* save() of a folder document: only the modified paths are written
saveFolder(cur, loaded, new) ==
    [cur EXCEPT
       !.parentId = IF new.parentId = loaded.parentId THEN @ ELSE new.parentId,
       !.path = IF new.path = loaded.path THEN @ ELSE new.path,
       !.depth = IF new.depth = loaded.depth THEN @ ELSE new.depth]

\* folder.parentId = newParentId; folder.save()
moveFolderSave(k) ==
    /\ mv[k].pc = "save"
    /\ LET new == preSave(mv[k].doc, mv[k].newParentId)
       IN  /\ folders' = [folders EXCEPT ![mv[k].folder] =
                             saveFolder(@, mv[k].doc, new)]
           /\ mv' = [mv EXCEPT ![k].pc = "descendants", ![k].path = new.path]
    /\ Silent
    /\ UNCHANGED <<now, nowMs, moves, deletes, uploadVars, blobs, files, quota, fileVars,
                   limiterVars, rangeVars, abuseVars, workerVars, lifeVars>>

\* path matches ^<oldPath>/
IsBelow(path, oldPath) ==
    /\ Len(path) > Len(oldPath)
    /\ SubSeq(path, 1, Len(oldPath)) = oldPath

\* folderSchema.methods.updateDescendantPaths on one descendant
movedDescendant(d, oldPath, newPath) ==
    LET p == newPath \o SubSeq(d.path, Len(oldPath) + 1, Len(d.path))
    IN  [d EXCEPT !.path = p, !.depth = Len(p)]

\* folder.updateDescendantPaths(oldPath) and the response
moveFolderUpdateDescendants(k) ==
    /\ mv[k].pc = "descendants"
    /\ folders' = [g \in FolderIds |->
                     IF IsBelow(folders[g].path, mv[k].doc.path)
                     THEN movedDescendant(folders[g], mv[k].doc.path, mv[k].path)
                     ELSE folders[g]]
    /\ Respond("moveFolder", "ok")
    /\ mv' = [mv EXCEPT ![k] = IdleMover]
    /\ UNCHANGED <<now, nowMs, moves, deletes, uploadVars, blobs, files, quota, fileVars,
                   limiterVars, rangeVars, abuseVars, workerVars, lifeVars>>

(* ============================ rate limiter ============================= *)

\* the window is full (count >= limit) written with the wrong comparison
limitExceeded(count, limit) == count > limit

\* count >= limit
limitReached(count, limit) == count >= limit

StoreFailures == {"none", "pipeline", "zrange"}

\* the sorted set as the store holds it: the key is gone once its TTL ran out
LiveScores == IF nowMs < zset.exp THEN zset.scores ELSE <<>>

\* zremrangebyscore(key, 0, windowStart): the scores that stay
InWindow(scores, windowStart) ==
    SelectSeq(scores, LAMBDA s : s > windowStart)

\* Math.max(1, Math.ceil((oldest + windowSeconds * 1000 - now) / 1000))
retryAfter(oldest) ==
    Max(1, CeilDiv(oldest + WindowSeconds * MsPerSecond - nowMs, MsPerSecond))

\* checkRateLimit for one key: the pipeline (prune, count, add, expire), the
\* read of the oldest entry of a full window, and the catch block that
\* answers allowed when a store operation fails
\* (the pipeline travels as one batch, which the store runs without
\* taking a command of another client in between)
checkRateLimit(failure) ==
    /\ Len(answers) < MaxChecks
    /\ LET windowStart == nowMs - WindowSeconds * MsPerSecond
           kept == InWindow(LiveScores, windowStart)
           count == Len(kept)
           added == Append(kept, nowMs)
           full == limitReached(count, Limit)
           failed == failure = "pipeline" \/ (failure = "zrange" /\ full)
           allowed == failed \/ ~full
       IN  /\ zset' = IF failure = "pipeline" THEN zset
                      ELSE [scores |-> added,
                            exp |-> nowMs + WindowSeconds * MsPerSecond]
           /\ answers' = Append(answers,
                            [at |-> nowMs, allowed |-> allowed,
                             failed |-> failed, entries |-> count,
                             retryAfter |-> IF allowed THEN 0
                                            ELSE retryAfter(Head(added))])
           /\ Respond("rateLimit", IF allowed THEN "allowed"
                                   ELSE "RATE_LIMIT_EXCEEDED")
    /\ UNCHANGED <<now, nowMs, moves, deletes, uploadVars, blobs, files, quota, fileVars,
                   folderVars, rangeVars, abuseVars, workerVars, lifeVars>>

\* the clock of the rate limiter, in (scaled) milliseconds
TickMs ==
    /\ nowMs < MaxMillis
    /\ nowMs' = nowMs + 1
    /\ Silent
    /\ UNCHANGED <<now, moves, deletes, uploadVars, blobs, files, quota, fileVars,
                   folderVars, limiterVars, rangeVars, abuseVars, workerVars, lifeVars>>

(* ============================ abuse gate =============================== *)

\* the key abuse:<ip>: absent, or a score with the time its TTL runs out
NoAbuseKey == [score |-> 0, exp |-> 0]

\* cacheClient.get(key) and parseInt: no score when the key is gone
abuseScore == IF nowMs < abuse.exp THEN abuse.score ELSE 0

\* the requests of the address in flight: where a request is in the
\* middleware chain and whether detectAbuse has attached req.recordAbuse
GateSlots == {"g1", "g2"}
IdleGate == [pc |-> "idle", canRecord |-> FALSE]

AbuseFailures == {"none", "get", "ttl"}

\* req.recordAbuse(points): incrby and expire with a TTL of one hour
recordAbuse(points) ==
    abuse' = [score |-> abuseScore + points, exp |-> nowMs + AbuseTtl]

\* preventPathTraversal, the first of the three security middlewares: a
\* request whose path or query matches a dangerous pattern is answered 400
\* and recorded if req.recordAbuse is there; any other request goes on
\* (through sanitizeInput) to detectAbuse
preventPathTraversal(s, dangerous) ==
    /\ gate[s].pc = "idle"
    /\ arrivals < MaxArrivals
    /\ arrivals' = arrivals + 1
    /\ IF dangerous
       THEN /\ IF gate[s].canRecord THEN recordAbuse(TraversalPoints)
               ELSE UNCHANGED abuse
            /\ Respond("request", "INVALID_PATH")
            /\ UNCHANGED gate
       ELSE /\ gate' = [gate EXCEPT ![s].pc = "detectAbuse"]
            /\ Silent
            /\ UNCHANGED abuse
    /\ UNCHANGED <<now, nowMs, moves, deletes, uploadVars, blobs, files, quota, fileVars,
                   folderVars, limiterVars, rangeVars, workerVars, lifeVars>>

\* a gate that turns a request away when the store fails
admittedUnlessFailed(failed, blocked) == ~failed /\ ~blocked

\* detectAbuse: next() is called unless the score is at the block score;
\* the catch block calls next() as well
admitted(failed, blocked) == failed \/ ~blocked

\* detectAbuse: the read of the score, the read of the TTL for a blocked
\* address, and the catch block
detectAbuse(s, failure) ==
    /\ gate[s].pc = "detectAbuse"
    /\ LET blocked == failure # "get" /\ abuseScore >= BlockScore
           failed == failure = "get" \/ (failure = "ttl" /\ blocked)
       IN  IF admitted(failed, blocked)
           THEN /\ gate' = [gate EXCEPT ![s] = [pc |-> "route",
                                                canRecord |-> ~failed]]
                /\ Silent
           ELSE /\ gate' = [gate EXCEPT ![s] = IdleGate]
                /\ Respond("request", "IP_BLOCKED")
    /\ UNCHANGED <<now, nowMs, moves, deletes, uploadVars, blobs, files, quota, fileVars,
                   folderVars, limiterVars, rangeVars, abuse, arrivals,
                   workerVars, lifeVars>>

\* uploadController.uploadChunk, catch block: a chunk request that failed
\* with CHUNK_VALIDATION_ERROR is recorded if req.recordAbuse is there
uploadChunkRefused(s) ==
    /\ gate[s].pc = "route"
    /\ IF gate[s].canRecord THEN recordAbuse(ChunkPoints) ELSE UNCHANGED abuse
    /\ gate' = [gate EXCEPT ![s] = IdleGate]
    /\ Respond("request", "CHUNK_VALIDATION_ERROR")
    /\ UNCHANGED <<now, nowMs, moves, deletes, uploadVars, blobs, files, quota, fileVars,
                   folderVars, limiterVars, rangeVars, arrivals, workerVars, lifeVars>>

\* a request that its route handles without a policy violation
requestHandled(s) ==
    /\ gate[s].pc = "route"
    /\ gate' = [gate EXCEPT ![s] = IdleGate]
    /\ Respond("request", "ok")
    /\ UNCHANGED <<now, nowMs, moves, deletes, uploadVars, blobs, files, quota, fileVars,
                   folderVars, limiterVars, rangeVars, abuse, arrivals,
                   workerVars, lifeVars>>

(* ======================== lifecycle workers ============================ *)

\* a run of a worker: which loop it is in, the items of the batch that the
\* loop has still to visit, the items visited, the items whose failure was
\* counted or logged, and whether an exception left run()
NoBatch ==
    [loop |-> "none", left |-> 0, visited |-> 0, logged |-> 0,
     escaped |-> FALSE]

Loops == {"expiry", "coldMigration", "hotMigration", "sessions", "tempDirs"}

\* where the processing of an item fails: in the lookup that precedes the
\* work on the item, or in the work itself
ItemFailures == {"none", "lookup", "work"}

\* run() of a worker up to a loop over the n items its query returned
runWorker(loop, n) ==
    /\ batch.loop = "none"
    /\ batch' = [NoBatch EXCEPT !.loop = loop, !.left = n]
    /\ Silent
    /\ UNCHANGED <<now, nowMs, moves, deletes, uploadVars, blobs, files, quota, fileVars,
                   folderVars, limiterVars, rangeVars, abuseVars, coldBlobs, mig,
                   migrations, lifeVars>>

\* the loop goes on with the next item
nextItem(b, logged) ==
    [b EXCEPT !.left = @ - 1, !.visited = @ + 1,
              !.logged = IF logged THEN @ + 1 ELSE @]

\* where the exception of an item is caught: in the try block around the
\* item, in the one around the loop, or in the one of run().
\* processExpiredBatch calls deleteExpiredFile, whose File.findById is
\* outside the try block of _deleteFile; the two loops of the migration
\* worker and cleanExpiredSessions wrap the item in try and catch;
\* cleanOrphanedTempDirs wraps the whole loop
caughtAt(loop, failure) ==
    CASE loop = "expiry" -> IF failure = "lookup" THEN "run" ELSE "item"
      [] loop \in {"coldMigration", "hotMigration", "sessions"} -> "item"
      [] OTHER -> "method"

\* the exception leaves the loop: the items left are not visited
leaveLoop(b, level) ==
    [b EXCEPT !.loop = "none", !.visited = @ + 1, !.logged = @ + 1,
              !.escaped = level \notin {"method", "run"}]

\* the batch after one item
afterItem(loop, failure, b) ==
    IF failure = "none" THEN nextItem(b, FALSE)
    ELSE IF caughtAt(loop, failure) = "item" THEN nextItem(b, TRUE)
    ELSE leaveLoop(b, caughtAt(loop, failure))

\* the worker processes one item of its batch
processItem(failure) ==
    /\ batch.loop # "none"
    /\ batch.left > 0
    /\ batch' = afterItem(batch.loop, failure, batch)
    /\ Silent
    /\ UNCHANGED <<now, nowMs, moves, deletes, uploadVars, blobs, files, quota, fileVars,
                   folderVars, limiterVars, rangeVars, abuseVars, coldBlobs, mig,
                   migrations, lifeVars>>

\* the loop has visited every item and run() returns
runDone ==
    /\ batch.loop # "none"
    /\ batch.left = 0
    /\ batch' = [batch EXCEPT !.loop = "none"]
    /\ Silent
    /\ UNCHANGED <<now, nowMs, moves, deletes, uploadVars, blobs, files, quota, fileVars,
                   folderVars, limiterVars, rangeVars, abuseVars, coldBlobs, mig,
                   migrations, lifeVars>>

(* =========================== worker timer ============================== *)

\* the worker object: isRunning, whether intervalId holds a timer, and
\* whether start() has been called (startAll calls it once)
StoppedWorker == [isRunning |-> FALSE, intervalId |-> FALSE, started |-> FALSE]

\* the invocations of run() that can be in flight at once
RunSlots == {"n1", "n2"}

\* the items a query of the worker can select
Items == 1..MaxItems

\* an invocation of run(): its position, the items its query returned and
\* has still to visit, the item it is working on, and whether start()
\* awaits it
IdleRun == [pc |-> "idle", todo |-> {}, cur |-> 0, first |-> FALSE]

\* the first item of a batch
Least(S) == CHOOSE i \in S : \A j \in S : i <= j

\* run() up to the query of the batch: nothing but isRunning is looked at
run(r) ==
    IF ~wk.isRunning THEN runs
    ELSE [runs EXCEPT ![r] = [IdleRun EXCEPT !.pc = "query"]]

\* Worker.start up to the await of the first run
start(r) ==
    /\ ~wk.started
    /\ runs[r].pc = "idle"
    /\ IF wk.isRunning
       THEN wk' = [wk EXCEPT !.started = TRUE] /\ UNCHANGED runs
       ELSE /\ wk' = [wk EXCEPT !.isRunning = TRUE, !.started = TRUE]
            /\ runs' = [runs EXCEPT ![r] = [IdleRun EXCEPT !.pc = "query",
                                                           !.first = TRUE]]
    /\ Silent
    /\ UNCHANGED <<now, nowMs, moves, deletes, uploadVars, blobs, files, quota, fileVars,
                   folderVars, limiterVars, rangeVars, abuseVars, workerVars, pending, failing, sweepVars,
                   bandwidthVars, serverVars>>

\* the timer set by setInterval fires: () => this.run()
intervalFires(r) ==
    /\ wk.intervalId
    /\ runs[r].pc = "idle"
    /\ runs' = run(r)
    /\ Silent
    /\ UNCHANGED <<now, nowMs, moves, deletes, uploadVars, blobs, files, quota, fileVars,
                   folderVars, limiterVars, rangeVars, abuseVars, workerVars, wk, pending, failing, sweepVars,
                   bandwidthVars, serverVars>>

\* Worker.stop: clearInterval and isRunning = false; a run in flight is
\* neither awaited nor told
stop ==
    /\ wk.started
    /\ wk' = [wk EXCEPT !.intervalId = FALSE, !.isRunning = FALSE]
    /\ Silent
    /\ UNCHANGED <<now, nowMs, moves, deletes, uploadVars, blobs, files, quota, fileVars,
                   folderVars, limiterVars, rangeVars, abuseVars, workerVars, runs, pending, failing, sweepVars,
                   bandwidthVars, serverVars>>

\* File.findExpiredFiles(limit): the first BatchSize of the items that are
\* due, in the order of their expiry
firstOfBatch(due) ==
    {i \in due : Cardinality({j \in due : j < i}) < BatchSize}

\* the query of processExpiredBatch returns
runQuery(r) ==
    /\ runs[r].pc = "query"
    /\ runs' = [runs EXCEPT ![r].pc = "loop", ![r].todo = firstOfBatch(pending)]
    /\ Silent
    /\ UNCHANGED <<now, nowMs, moves, deletes, uploadVars, blobs, files, quota, fileVars,
                   folderVars, limiterVars, rangeVars, abuseVars, workerVars, wk, pending, failing, sweepVars,
                   bandwidthVars, serverVars>>

\* the loop takes the next item of the batch and starts to work on it
runBeginItem(r) ==
    /\ runs[r].pc = "loop"
    /\ runs[r].todo # {}
    /\ runs' = [runs EXCEPT ![r].pc = "item", ![r].cur = Least(runs[r].todo)]
    /\ Silent
    /\ UNCHANGED <<now, nowMs, moves, deletes, uploadVars, blobs, files, quota, fileVars,
                   folderVars, limiterVars, rangeVars, abuseVars, workerVars, wk, pending, failing, sweepVars,
                   bandwidthVars, serverVars>>

\* deleteExpiredFile returns or throws. An item that is deleted is
\* selected by no later query; a failure in _deleteFile is caught there and
\* the loop goes on; a failure of the lookup before it leaves the loop and
\* is caught in run(), after which start(), if it awaited this run, goes
\* on to setInterval
runEndItem(r, failure) ==
    /\ runs[r].pc = "item"
    /\ failure # "none" <=> runs[r].cur \in failing
    /\ pending' = IF failure = "none" THEN pending \ {runs[r].cur} ELSE pending
    /\ runs' = IF caughtAt("expiry", failure) = "run"
               THEN [runs EXCEPT ![r] = IdleRun]
               ELSE [runs EXCEPT ![r].pc = "loop", ![r].cur = 0,
                                 ![r].todo = @ \ {runs[r].cur}]
    /\ wk' = IF caughtAt("expiry", failure) = "run" /\ runs[r].first
             THEN [wk EXCEPT !.intervalId = TRUE] ELSE wk
    /\ Silent
    /\ UNCHANGED <<now, nowMs, moves, deletes, uploadVars, blobs, files, quota, fileVars,
                   folderVars, limiterVars, rangeVars, abuseVars, workerVars, failing, sweepVars,
                   bandwidthVars, serverVars>>

\* the loop is through and run() returns; start(), which awaited the
\* first run, goes on to setInterval
runReturn(r) ==
    /\ runs[r].pc = "loop"
    /\ runs[r].todo = {}
    /\ runs' = [runs EXCEPT ![r] = IdleRun]
    /\ wk' = IF runs[r].first THEN [wk EXCEPT !.intervalId = TRUE] ELSE wk
    /\ Silent
    /\ UNCHANGED <<now, nowMs, moves, deletes, uploadVars, blobs, files, quota, fileVars,
                   folderVars, limiterVars, rangeVars, abuseVars, workerVars, pending, failing, sweepVars,
                   bandwidthVars, serverVars>>

(* ========================== process shutdown =========================== *)

\* the process: whether the HTTP server accepts connections, whether a
\* signal was received, the two store connections, where shutdown() of
\* index.js and DatabaseConnection.gracefulShutdown are, and whether
\* process.exit was called and with which code
RunningServer ==
    [listening |-> TRUE, signalled |-> FALSE, redis |-> "open", mongo |-> "open",
     shutdown |-> "idle", gracefulShutdown |-> "idle", exited |-> FALSE, code |-> 0]

\* a request arrives and its handler begins
request ==
    /\ ~server.exited
    /\ server.listening
    /\ inflight < MaxHandlers
    /\ inflight' = inflight + 1
    /\ Silent
    /\ UNCHANGED <<now, nowMs, moves, deletes, uploadVars, blobs, files, quota, fileVars,
                   folderVars, limiterVars, rangeVars, abuseVars, workerVars, timerVars,
                   sweepVars, bandwidthVars, server>>

\* a handler answers
respond ==
    /\ ~server.exited
    /\ inflight > 0
    /\ inflight' = inflight - 1
    /\ Silent
    /\ UNCHANGED <<now, nowMs, moves, deletes, uploadVars, blobs, files, quota, fileVars,
                   folderVars, limiterVars, rangeVars, abuseVars, workerVars, timerVars,
                   sweepVars, bandwidthVars, server>>

\* SIGINT or SIGTERM: the listeners run in the order of their registration,
\* each up to its first await. gracefulShutdown, registered when the
\* database module is loaded, calls mongoose.disconnect(); shutdown stops
\* the workers and calls redis.disconnect(). Nothing closes the HTTP server
onSignal ==
    /\ ~server.exited
    /\ ~server.signalled
    /\ server' = [server EXCEPT !.signalled = TRUE,
                                !.gracefulShutdown = "disconnect", !.mongo = "closing",
                                !.shutdown = "redis", !.redis = "closing"]
    /\ wk' = [wk EXCEPT !.intervalId = FALSE, !.isRunning = FALSE]
    /\ Silent
    /\ UNCHANGED <<now, nowMs, moves, deletes, uploadVars, blobs, files, quota, fileVars,
                   folderVars, limiterVars, rangeVars, abuseVars, workerVars, runs, pending,
                   failing, sweepVars, bandwidthVars, inflight>>

\* the quit of the Redis clients is through: shutdown goes on to
\* database.disconnect()
redisDisconnect ==
    /\ ~server.exited
    /\ server.shutdown = "redis"
    /\ server' = [server EXCEPT !.redis = "closed", !.shutdown = "mongo"]
    /\ Silent
    /\ UNCHANGED <<now, nowMs, moves, deletes, uploadVars, blobs, files, quota, fileVars,
                   folderVars, limiterVars, rangeVars, abuseVars, workerVars, timerVars,
                   sweepVars, bandwidthVars, inflight>>

\* mongoose.disconnect() is through
databaseDisconnect ==
    /\ ~server.exited
    /\ server.mongo = "closing"
    /\ server' = [server EXCEPT !.mongo = "closed"]
    /\ Silent
    /\ UNCHANGED <<now, nowMs, moves, deletes, uploadVars, blobs, files, quota, fileVars,
                   folderVars, limiterVars, rangeVars, abuseVars, workerVars, timerVars,
                   sweepVars, bandwidthVars, inflight>>

\* process.exit(0)
exit(s) == [s EXCEPT !.exited = TRUE, !.code = 0]

\* gracefulShutdown after its await this.disconnect()
gracefulShutdown ==
    /\ ~server.exited
    /\ server.gracefulShutdown = "disconnect"
    /\ server.mongo = "closed"
    /\ server' = exit(server)
    /\ Silent
    /\ UNCHANGED <<now, nowMs, moves, deletes, uploadVars, blobs, files, quota, fileVars,
                   folderVars, limiterVars, rangeVars, abuseVars, workerVars, timerVars,
                   sweepVars, bandwidthVars, inflight>>

\* shutdown after its await database.disconnect(), which returns at once
\* when the connection is closed already
shutdown ==
    /\ ~server.exited
    /\ server.shutdown = "mongo"
    /\ server.mongo = "closed"
    /\ server' = exit(server)
    /\ Silent
    /\ UNCHANGED <<now, nowMs, moves, deletes, uploadVars, blobs, files, quota, fileVars,
                   folderVars, limiterVars, rangeVars, abuseVars, workerVars, timerVars,
                   sweepVars, bandwidthVars, inflight>>

(* ========================== cleanup sweeps ============================= *)

\* the record of the session in the durable store: its status, the day of
\* its last save and the day it expires
NoDoc == [exists |-> FALSE, status |-> "pending", updatedAt |-> 0, expiresAt |-> 0]

\* the directory temp/<sessionId>: whether it exists and whether its mtime
\* is more than one hour ago
NoDir == [exists |-> FALSE, old |-> FALSE]

\* where CleanupWorker.run and UploadCleanupService.cleanup are
IdleSweeper == [worker |-> "idle", service |-> "idle"]

\* UploadSession.findExpiredSessions
isExpiredSession(d) ==
    d.exists /\ d.status \in LiveStatuses /\ d.expiresAt <= now

\* CleanupWorker.cleanExpiredSessions: deleteChunks, status = expired, save
cleanExpiredSessions ==
    /\ sweeper.worker = "idle"
    /\ IF isExpiredSession(sessionDoc)
       THEN /\ tempDir' = NoDir
            /\ sessionDoc' = [sessionDoc EXCEPT !.status = "expired", !.updatedAt = now]
       ELSE UNCHANGED <<sessionDoc, tempDir>>
    /\ sweeper' = [sweeper EXCEPT !.worker = "cleanOrphanedTempDirs"]
    /\ Silent
    /\ UNCHANGED <<now, nowMs, moves, deletes, uploadVars, blobs, files, quota, fileVars,
                   folderVars, limiterVars, rangeVars, abuseVars, workerVars, timerVars, bandwidthVars, serverVars, serverVars>>

\* UploadSession.findOne({sessionId, status in pending, uploading, assembling})
activeSession(d) == d.exists /\ d.status \in LiveStatuses

\* CleanupWorker.cleanOrphanedTempDirs on the directory of the session
cleanOrphanedTempDirs ==
    /\ sweeper.worker = "cleanOrphanedTempDirs"
    /\ tempDir' = IF tempDir.exists /\ ~activeSession(sessionDoc) THEN NoDir ELSE tempDir
    /\ sweeper' = [sweeper EXCEPT !.worker = "cleanOldSessions"]
    /\ Silent
    /\ UNCHANGED <<now, nowMs, moves, deletes, uploadVars, blobs, files, quota, fileVars,
                   folderVars, limiterVars, rangeVars, abuseVars, workerVars, timerVars, bandwidthVars, serverVars, sessionDoc>>

\* UploadSession.cleanupOldSessions(daysOld): deleteMany
cleanupOldSessions(d, daysOld) ==
    IF d.exists /\ d.status \in TerminalStatuses /\ d.updatedAt < now - daysOld
    THEN NoDoc ELSE d

\* CleanupWorker.cleanOldSessions, after which run() returns
cleanOldSessions ==
    /\ sweeper.worker = "cleanOldSessions"
    /\ sessionDoc' = cleanupOldSessions(sessionDoc, OldSessionDays)
    /\ sweeper' = [sweeper EXCEPT !.worker = "idle"]
    /\ Silent
    /\ UNCHANGED <<now, nowMs, moves, deletes, uploadVars, blobs, files, quota, fileVars,
                   folderVars, limiterVars, rangeVars, abuseVars, workerVars, timerVars, bandwidthVars, serverVars, tempDir>>

\* the query of UploadCleanupService.cleanup: expired, or failed, or
\* uploading and created more than 24 hours ago (expiresAt is the time of
\* the creation plus sessionTtl)
selectedByCleanup(d) ==
    /\ d.exists
    /\ \/ d.expiresAt < now
       \/ d.status = "failed"
       \/ d.status = "uploading" /\ d.expiresAt - SessionTtl < now - 1

\* UploadCleanupService.cleanup up to the orphan sweep: _deleteDirectory
\* and UploadSession.deleteOne for every session of the query
cleanup ==
    /\ sweeper.service = "idle"
    /\ IF selectedByCleanup(sessionDoc)
       THEN tempDir' = NoDir /\ sessionDoc' = NoDoc
       ELSE UNCHANGED <<sessionDoc, tempDir>>
    /\ sweeper' = [sweeper EXCEPT !.service = "cleanOrphanedFolders"]
    /\ Silent
    /\ UNCHANGED <<now, nowMs, moves, deletes, uploadVars, blobs, files, quota, fileVars,
                   folderVars, limiterVars, rangeVars, abuseVars, workerVars, timerVars, bandwidthVars, serverVars, serverVars>>

\* UploadCleanupService._cleanOrphanedFolders on the directory of the
\* session, after which cleanup() returns
cleanOrphanedFolders ==
    /\ sweeper.service = "cleanOrphanedFolders"
    /\ tempDir' = IF tempDir.exists /\ ~sessionDoc.exists /\ tempDir.old
                  THEN NoDir ELSE tempDir
    /\ sweeper' = [sweeper EXCEPT !.service = "idle"]
    /\ Silent
    /\ UNCHANGED <<now, nowMs, moves, deletes, uploadVars, blobs, files, quota, fileVars,
                   folderVars, limiterVars, rangeVars, abuseVars, workerVars, timerVars, bandwidthVars, serverVars, sessionDoc>>

\* a chunk of a live session is written to its directory and recorded
stageChunk ==
    /\ sessionDoc.exists /\ sessionDoc.status \in {"pending", "uploading"} /\ sessionDoc.expiresAt > now
    /\ tempDir' = [exists |-> TRUE, old |-> FALSE]
    /\ sessionDoc' = [sessionDoc EXCEPT !.status = "uploading", !.updatedAt = now]
    /\ Silent
    /\ UNCHANGED <<now, nowMs, moves, deletes, uploadVars, blobs, files, quota, fileVars,
                   folderVars, limiterVars, rangeVars, abuseVars, workerVars, timerVars, bandwidthVars, serverVars, sweeper>>

\* the upload ends: markCompleted, or markFailed of an abort or of a failed
\* assembly (both delete the chunks)
endSession(status) ==
    /\ sessionDoc.exists /\ sessionDoc.status \in {"pending", "uploading"} /\ sessionDoc.expiresAt > now
    /\ sessionDoc' = [sessionDoc EXCEPT !.status = status, !.updatedAt = now]
    /\ tempDir' = IF status = "failed" THEN NoDir ELSE tempDir
    /\ Silent
    /\ UNCHANGED <<now, nowMs, moves, deletes, uploadVars, blobs, files, quota, fileVars,
                   folderVars, limiterVars, rangeVars, abuseVars, workerVars, timerVars, bandwidthVars, serverVars, sweeper>>

\* an hour passes within the day
hourPasses ==
    /\ tempDir.exists /\ ~tempDir.old
    /\ tempDir' = [tempDir EXCEPT !.old = TRUE]
    /\ Silent
    /\ UNCHANGED <<now, nowMs, moves, deletes, uploadVars, blobs, files, quota, fileVars,
                   folderVars, limiterVars, rangeVars, abuseVars, workerVars, timerVars, bandwidthVars, serverVars, sessionDoc,
                   sweeper>>

\* a day passes
dayPasses ==
    /\ now < MaxTime
    /\ now' = now + 1
    /\ tempDir' = IF tempDir.exists THEN [tempDir EXCEPT !.old = TRUE] ELSE tempDir
    /\ Silent
    /\ UNCHANGED <<nowMs, moves, deletes, uploadVars, blobs, files, quota, fileVars,
                   folderVars, limiterVars, rangeVars, abuseVars, workerVars, timerVars, bandwidthVars, serverVars, sessionDoc,
                   sweeper>>

(* ============================ bandwidth ================================ *)

\* calendar dates: the year, the month as getMonth() and the day of the
\* month as getDate() return them
Dates == [year : 0..MaxTime, month : 0..1, day : 1..2]

\* d is not later than e
DateLeq(d, e) ==
    \/ d.year < e.year
    \/ d.year = e.year /\ d.month < e.month
    \/ d.year = e.year /\ d.month = e.month /\ d.day <= e.day

NoBandwidth ==
    [daily |-> 0, monthly |-> 0,
     lastReset |-> [year |-> 0, month |-> 0, day |-> 1]]

NoCall ==
    [done |-> FALSE, now |-> NoBandwidth.lastReset, bytes |-> 0,
     before |-> NoBandwidth]

\* quotaSchema.methods.addBandwidth on usage.bandwidth b, called at the
\* date today
addBandwidth(b, today, bytes) ==
    LET newDay == today.day # b.lastReset.day
        newMonth == today.month # b.lastReset.month
        daily == IF newDay THEN 0 ELSE b.daily
        monthly == IF newDay /\ newMonth THEN 0 ELSE b.monthly
    IN  [daily |-> daily + bytes, monthly |-> monthly + bytes,
         lastReset |-> IF newDay THEN today ELSE b.lastReset]

\* the call returns; the document it found is kept beside the call
addBandwidthCall ==
    /\ ~bwCall.done
    /\ bandwidth' = addBandwidth(bandwidth, bwCall.now, bwCall.bytes)
    /\ bwCall' = [bwCall EXCEPT !.done = TRUE, !.before = bandwidth]
    /\ Silent
    /\ UNCHANGED <<now, nowMs, moves, deletes, uploadVars, blobs, files, quota, fileVars,
                   folderVars, limiterVars, rangeVars, abuseVars, workerVars, timerVars,
                   sweepVars, serverVars>>

(* ========================== tier migration ============================= *)

\* the slots of the migrations in flight: the file, the tiers, and whether
\* the loaded document carries an unsaved storageTier
Migrators == {"w1", "w2"}
IdleMigrator ==
    [pc |-> "idle", file |-> 0, source |-> "hot", target |-> "hot",
     dirty |-> FALSE]

Tiers == {"hot", "cold"}

\* User.isPremiumOrAdmin
isPremiumOrAdmin(u) == RoleOf[u] \in {"premium", "admin"}

\* the blob of file id is in the tier
InTier(id, tier) == IF tier = "hot" THEN id \in blobs ELSE id \in coldBlobs

\* File.findColdMigrationCandidates
findColdMigrationCandidates ==
    {id \in DOMAIN files : /\ files[id].storageTier = "hot"
                           /\ files[id].lastAccessAt <= now - HotToColdDays
                           /\ ~files[id].isDeleted
                           /\ files[id].migrationStatus \notin {"pending", "in_progress"}}

\* File.findHotMigrationCandidates
findHotMigrationCandidates ==
    {id \in DOMAIN files : /\ files[id].storageTier = "cold"
                           /\ files[id].downloads >= ColdToHotDownloads
                           /\ files[id].lastDownloadAt >= now - RecentDays
                           /\ ~files[id].isDeleted
                           /\ files[id].migrationStatus \notin {"pending", "in_progress"}}

\* StorageTierService.migrateFile up to the call of storageProvider.migrate:
\* File.findById, the answer for a file that is on the target tier, and the
\* save of migrationStatus = in_progress
migrateFile(w, id, targetTier) ==
    /\ mig[w].pc = "idle"
    /\ migrations < MaxMigrations
    /\ migrations' = migrations + 1
    /\ IF files[id].storageTier = targetTier
       THEN /\ Respond("migrate", "ok")
            /\ UNCHANGED <<files, mig>>
       ELSE /\ files' = [files EXCEPT ![id].migrationStatus = "in_progress"]
            /\ mig' = [mig EXCEPT ![w] =
                         [pc |-> "migrate", file |-> id,
                          source |-> files[id].storageTier,
                          target |-> targetTier, dirty |-> FALSE]]
            /\ Silent
    /\ UNCHANGED <<now, nowMs, moves, deletes, uploadVars, blobs, quota, fileVars,
                   folderVars, limiterVars, rangeVars, abuseVars, batch, coldBlobs,
                   lifeVars>>

\* MigrationWorker.processColdMigrations for one candidate
processColdMigrations(w, id) ==
    /\ id \in findColdMigrationCandidates
    /\ migrateFile(w, id, "cold")

\* MigrationWorker.processHotMigrations for one candidate
processHotMigrations(w, id) ==
    /\ id \in findHotMigrationCandidates
    /\ migrateFile(w, id, "hot")

\* AdminService.forceMigrateFile and StorageTierService.forceMigrate
forceMigrate(w, id, targetTier) ==
    /\ id \in DOMAIN files
    /\ migrateFile(w, id, targetTier)

\* storageProvider.migrate(storageKey, sourceTier, targetTier): the blob
\* moves from the source tier to the target tier, or the call fails and
\* leaves the blob where it is (it fails when the source tier has no blob)
migrateFileMigrate(w, ioFail) ==
    /\ mig[w].pc = "migrate"
    /\ LET id == mig[w].file
           moved == ~ioFail /\ InTier(id, mig[w].source)
           hot == IF mig[w].target = "hot" THEN blobs \cup {id} ELSE blobs \ {id}
           cold == IF mig[w].target = "cold" THEN coldBlobs \cup {id}
                   ELSE coldBlobs \ {id}
       IN  /\ blobs' = IF moved THEN hot ELSE blobs
           /\ coldBlobs' = IF moved THEN cold ELSE coldBlobs
           /\ mig' = [mig EXCEPT ![w].pc = IF moved THEN "updateTier"
                                           ELSE "markFailed"]
    /\ Silent
    /\ UNCHANGED <<now, nowMs, moves, deletes, uploadVars, files, quota, fileVars,
                   folderVars, limiterVars, rangeVars, abuseVars, batch, migrations, lifeVars>>

\* fileSchema.methods.updateTier on the loaded document; a save that fails
\* leaves the assigned paths modified and leads to the catch block
migrateFileUpdateTier(w, saveFails) ==
    /\ mig[w].pc = "updateTier"
    /\ IF saveFails
       THEN /\ mig' = [mig EXCEPT ![w].pc = "markFailed", ![w].dirty = TRUE]
            /\ Silent
            /\ UNCHANGED files
       ELSE /\ files' = [files EXCEPT ![mig[w].file].storageTier = mig[w].target,
                                      ![mig[w].file].migrationStatus = "completed"]
            /\ mig' = [mig EXCEPT ![w] = IdleMigrator]
            /\ Respond("migrate", "ok")
    /\ UNCHANGED <<now, nowMs, moves, deletes, uploadVars, blobs, quota, fileVars,
                   folderVars, limiterVars, rangeVars, abuseVars, batch, coldBlobs,
                   migrations, lifeVars>>

\* the catch block of migrateFile: migrationStatus = failed and save, which
\* writes the modified paths of the document, and the error goes to the
\* caller
migrateFileMarkFailed(w, saveFails) ==
    /\ mig[w].pc = "markFailed"
    /\ files' = IF saveFails THEN files
                ELSE [files EXCEPT
                        ![mig[w].file].migrationStatus = "failed",
                        ![mig[w].file].storageTier =
                            IF mig[w].dirty THEN mig[w].target ELSE @]
    /\ mig' = [mig EXCEPT ![w] = IdleMigrator]
    /\ Respond("migrate", "MIGRATION_FAILED")
    /\ UNCHANGED <<now, nowMs, moves, deletes, uploadVars, blobs, quota, fileVars,
                   folderVars, limiterVars, rangeVars, abuseVars, batch, coldBlobs,
                   migrations, lifeVars>>

(* ============================ clock ==================================== *)

\* no request and no worker run is in flight
Quiet ==
    /\ \A p \in Procs : proc[p].pc = "idle"
    /\ worker.pc = "idle"
    /\ \A k \in Tasks : task[k].pc = "idle"
    /\ \A k \in Movers : mv[k].pc = "idle"

\* the wall clock advances by one unit; the unit is long compared with a
\* request, so the clock ticks between requests and never during one
Tick ==
    /\ Quiet
    /\ now < MaxTime
    /\ now' = now + 1
    /\ Silent
    /\ UNCHANGED <<nowMs, moves, deletes, uploadVars, blobs, files, quota, fileVars,
                   folderVars, limiterVars, rangeVars, abuseVars, workerVars, lifeVars>>

\* the times an UploadSession.create may take
Latencies == {0, 1}

(* ===================== upload specification ============================ *)

\* nothing is in flight and no session exists
InitRequests ==
    /\ now = 0
    /\ nowMs = 0
    /\ moves = 0
    /\ deletes = 0
    /\ last = NoResponse
    /\ sess = NoSession
    /\ sessKey = NoKey
    /\ chunksKey = NoChunksKey
    /\ staged = EmptyStaging
    /\ proc = [p \in Procs |-> IdleProc]
    /\ worker = IdleWorker
    /\ metaCache = [id \in FileIds |-> 0]
    /\ cachedTier = [id \in FileIds |-> "hot"]
    /\ task = [k \in Tasks |-> IdleTask]
    /\ prepared = [id \in FileIds |-> 0]
    /\ mv = [k \in Movers |-> IdleMover]
    /\ zset = NoZset
    /\ answers = <<>>
    /\ batch = NoBatch
    /\ coldBlobs = {}
    /\ mig = [w \in Migrators |-> IdleMigrator]
    /\ migrations = 0

\* the worker has not been started and its query selects nothing
InitNoTimer ==
    /\ wk = StoppedWorker
    /\ runs = [r \in RunSlots |-> IdleRun]
    /\ pending = {}
    /\ failing = {}

\* no session record, no staging directory and no cleanup pass
InitNoSweep ==
    /\ sessionDoc = NoDoc
    /\ tempDir = NoDir
    /\ sweeper = IdleSweeper

\* no call of addBandwidth is being looked at
InitNoBandwidth ==
    /\ bandwidth = NoBandwidth
    /\ bwCall = NoCall

\* the process after start(): both stores connected, the server
\* listening, no signal received and no handler in flight
InitNoSignal ==
    /\ server = RunningServer
    /\ inflight = 0

InitIdle ==
    InitRequests /\ InitNoTimer /\ InitNoSweep /\ InitNoBandwidth /\ InitNoSignal

\* no call of parseRange is being looked at
InitNoRange ==
    /\ rangeHeader = NoHeader
    /\ rangeSize = 1
    /\ parsed = NotParsed

\* the address has no abuse key and no request on its way
InitNoAbuse ==
    /\ abuse = NoAbuseKey
    /\ gate = [s \in GateSlots |-> IdleGate]
    /\ arrivals = 0

\* the folders a user made with three createFolder calls: /a, /b and /b/a
InitFolders ==
    folders = [id \in FolderIds |->
                 CASE id = 1 -> [parentId |-> NoFolder, name |-> "a",
                                 path |-> <<"a">>, depth |-> 0]
                   [] id = 2 -> [parentId |-> NoFolder, name |-> "b",
                                 path |-> <<"b">>, depth |-> 0]
                   [] OTHER -> [parentId |-> 2, name |-> "a",
                                path |-> <<"b", "a">>, depth |-> 1]]

\* a fresh installation: no File record, no blob, no quota document
InitEmpty ==
    /\ blobs = {}
    /\ files = <<>>
    /\ quota = [u \in Users |-> NoQuota]

Init == InitIdle /\ InitNoRange /\ InitNoAbuse /\ InitFolders /\ InitEmpty

Next ==
    \/ \E u \in Uploaders, size \in TotalSizes, asText \in BOOLEAN,
          h \in HashInputs : initializeUpload(u, size, asText, h, 0)
    \/ \E p \in Procs, i \in ChunkInputs, len \in ChunkLens,
          hashOk \in BOOLEAN : uploadChunkBegin(p, i, len, hashOk)
    \/ \E p \in Procs : uploadChunkWrite(p)
    \/ \E p \in Procs : uploadChunkFind(p)
    \/ \E p \in Procs : uploadChunkSave(p)
    \/ \E p \in Procs, u \in Users : completeUploadBegin(p, u)
    \/ \E p \in Procs : completeUploadStartAssembly(p)
    \/ \E p \in Procs, ioFail \in BOOLEAN : completeUploadAssemble(p, ioFail)
    \/ \E p \in Procs : completeUploadCreateFile(p)
    \/ \E p \in Procs : completeUploadMarkCompleted(p)
    \/ \E p \in Procs : completeUploadMarkFailed(p)
    \/ \E p \in Procs, u \in Users : abortUploadBegin(p, u)
    \/ \E p \in Procs : abortUploadDeleteChunks(p)
    \/ \E p \in Procs : abortUploadMarkFailed(p)
    \/ cleanExpiredSessionsFind
    \/ cleanExpiredSessionsSave
    \* nothing that happens before the session exists depends on the time
    \/ (sess.exists /\ Tick)

Spec == Init /\ [][Next]_vars

(* ===================== range specification ============================= *)

\* the texts of at most n characters
TextsUpTo(n) == UNION {[1..l -> RangeChars] : l \in 0..n}

RangeHeaders == [bytes : BOOLEAN, range : TextsUpTo(MaxHeader)]

\* a call of parseRange(rangeHeader, fileSize) is about to be made
InitRange ==
    /\ InitIdle
    /\ InitNoAbuse
    /\ InitFolders
    /\ InitEmpty
    /\ rangeHeader \in RangeHeaders
    /\ rangeSize \in 1..MaxSize
    /\ parsed = NotParsed

\* the call returns
parseRangeCall ==
    /\ ~parsed.done
    /\ parsed' = [done |-> TRUE, range |-> parseRange(rangeHeader, rangeSize)]
    /\ Silent
    /\ UNCHANGED <<now, nowMs, moves, deletes, uploadVars, blobs, files, quota, fileVars,
                   folderVars, limiterVars, rangeHeader, rangeSize,
                   abuseVars, workerVars, lifeVars>>

NextRange == parseRangeCall

SpecRange == InitRange /\ [][NextRange]_vars

(* ==================== session specification ============================ *)

\* the upload engine with the calls that only read the session, for uploads
\* without an expected hash whose create may take time; one complete or
\* abort runs at a time, beside the chunk calls of the other request
NextSession ==
    \/ \E u \in Uploaders, size \in 1..MaxSize, d \in Latencies :
          initializeUpload(u, size, FALSE, "none", d)
    \/ \E p \in Procs, i \in ChunkInputs, len \in ChunkLens,
          hashOk \in BOOLEAN : uploadChunkBegin(p, i, len, hashOk)
    \/ \E p \in Procs : uploadChunkWrite(p)
    \/ \E p \in Procs : uploadChunkFind(p)
    \/ \E p \in Procs : uploadChunkSave(p)
    \/ \E u \in Users : completeUploadBegin("r1", u)
    \/ completeUploadStartAssembly("r1")
    \/ \E ioFail \in BOOLEAN : completeUploadAssemble("r1", ioFail)
    \/ completeUploadCreateFile("r1")
    \/ completeUploadMarkCompleted("r1")
    \/ completeUploadMarkFailed("r1")
    \/ \E u \in Users : abortUploadBegin("r1", u)
    \/ abortUploadDeleteChunks("r1")
    \/ abortUploadMarkFailed("r1")
    \/ getUploadStatus
    \/ \E u \in Users : resumeUpload(u)
    \/ cleanExpiredSessionsFind
    \/ cleanExpiredSessionsSave
    \/ (sess.exists /\ Tick)

SpecSession == Init /\ [][NextSession]_vars

(* =================== rehydration specification ========================= *)

\* chunk ingest, status and resume over a volatile store that can lose keys
NextRehydrate ==
    \/ \E u \in Uploaders, size \in 1..MaxSize :
          initializeUpload(u, size, FALSE, "none", 0)
    \/ \E p \in Procs, i \in ChunkInputs, len \in ChunkLens,
          hashOk \in BOOLEAN : uploadChunkBegin(p, i, len, hashOk)
    \/ \E p \in Procs : uploadChunkWrite(p)
    \/ \E p \in Procs : uploadChunkFind(p)
    \/ \E p \in Procs : uploadChunkSave(p)
    \/ getUploadStatus
    \/ \E u \in Users : resumeUpload(u)
    \/ loseVolatileKeys
    \/ (sess.exists /\ Tick)

SpecRehydrate == Init /\ [][NextRehydrate]_vars

(* ====================== file specification ============================= *)

\* the File record of an upload of the given size completed at time t and
\* made private since
UploadedFile(size, t) ==
    [NoFile EXCEPT !.exists = TRUE, !.size = size, !.hash = <<size>>,
                   !.expiresAt = t + ExpiryDaysFree, !.lastAccessAt = t,
                   !.isPublic = FALSE]

\* user u1 has completed two uploads: one of two bytes ExpiryDaysFree days
\* ago, which expires now, and one of one byte just now
InitFiles ==
    /\ InitIdle
    /\ InitNoRange
    /\ InitNoAbuse
    /\ InitFolders
    /\ files = <<UploadedFile(2, -ExpiryDaysFree), UploadedFile(1, 0)>>
    /\ blobs = {1, 2}
    /\ quota = [u \in Users |->
                  IF u = "u1"
                  THEN [exists |-> TRUE, storage |-> 3, files |-> 2,
                        isOverQuota |-> FALSE]
                  ELSE NoQuota]

NextFiles ==
    \/ \E k \in Tasks, id \in FileIds, u \in Users,
          header \in DownloadHeaders :
          prepareDownload(k, id, u, header, NoPassword)
    \/ \E k \in Tasks : incrementDownloadFind(k)
    \/ \E k \in Tasks : incrementDownloadSave(k)
    \/ \E k \in Tasks, id \in FileIds, u \in Users : deleteFile(k, id, u)
    \/ \E k \in Tasks, id \in FileIds : forceDeleteFile(k, id)
    \/ \E k \in Tasks, id \in FileIds : deleteExpiredFile(k, id)
    \/ \E k \in Tasks : deleteFileSoftDelete(k)
    \/ \E k \in Tasks : deleteFileGetQuota(k)
    \/ \E k \in Tasks : deleteFileRemoveFile(k)
    \/ Tick

SpecFiles == InitFiles /\ [][NextFiles]_vars

(* ====================== expiry specification =========================== *)

\* the File record of an upload of an admin, which has no expiry date
UploadedAdminFile(size, t) ==
    [UploadedFile(size, t) EXCEPT !.userId = "u2", !.expiresAt = NoDate]

\* users u1 (free) and u2 (admin) have each completed an upload
\* ExpiryDaysFree days ago: the file of u1 expires now, the file of u2 has
\* no expiry date
InitExpiry ==
    /\ InitIdle
    /\ InitNoRange
    /\ InitNoAbuse
    /\ InitFolders
    /\ files = <<UploadedFile(2, -ExpiryDaysFree),
                 UploadedAdminFile(1, -ExpiryDaysFree)>>
    /\ blobs = {1, 2}
    /\ quota = [u \in Users |->
                  [exists |-> TRUE, storage |-> IF u = "u1" THEN 2 ELSE 1,
                   files |-> 1, isOverQuota |-> FALSE]]

SpecExpiry == InitExpiry /\ [][NextFiles]_vars

(* ====================== access specification =========================== *)

\* the File records of two finished uploads, one of u1 and one of u2, each
\* public or private and with or without the password "p"
InitAccess ==
    /\ InitIdle
    /\ InitNoRange
    /\ InitNoAbuse
    /\ InitFolders
    /\ \E pub1 \in BOOLEAN, pub2 \in BOOLEAN,
          pw1 \in {NoPassword, "p"}, pw2 \in {NoPassword, "p"} :
          files = <<[UploadedFile(2, 0) EXCEPT !.isPublic = pub1,
                                               !.password = pw1],
                    [UploadedAdminFile(1, 0) EXCEPT !.isPublic = pub2,
                                                    !.password = pw2]>>
    /\ blobs = {1, 2}
    /\ quota = [u \in Users |->
                  [exists |-> TRUE, storage |-> IF u = "u1" THEN 2 ELSE 1,
                   files |-> 1, isOverQuota |-> FALSE]]

\* downloads by the users and by callers without a token, with and without
\* a password
NextAccess ==
    \/ \E k \in Tasks, id \in FileIds, u \in Callers,
          password \in Passwords \cup {NoPassword} :
          prepareDownload(k, id, u, NoHeader, password)
    \/ \E k \in Tasks : incrementDownloadFind(k)
    \/ \E k \in Tasks : incrementDownloadSave(k)
    \/ Tick

SpecAccess == InitAccess /\ [][NextAccess]_vars

(* ====================== folder specification =========================== *)

NextFolders ==
    \/ \E k \in Movers, id \in FolderIds, newParentId \in FolderIds \cup {NoFolder} :
          moveFolder(k, id, newParentId)
    \/ \E k \in Movers : moveFolderSave(k)
    \/ \E k \in Movers : moveFolderUpdateDescendants(k)

SpecFolders == Init /\ [][NextFolders]_vars

(* ==================== rate limiter specification ======================= *)

NextLimiter ==
    \/ \E failure \in StoreFailures : checkRateLimit(failure)
    \/ TickMs

SpecLimiter == Init /\ [][NextLimiter]_vars

(* ====================== abuse gate specification ====================== *)

\* the requests of one address and the clock of the volatile store
NextAbuse ==
    \/ \E s \in GateSlots, dangerous \in BOOLEAN : preventPathTraversal(s, dangerous)
    \/ \E s \in GateSlots, failure \in {"none"} : detectAbuse(s, failure)
    \/ \E s \in GateSlots : uploadChunkRefused(s)
    \/ \E s \in GateSlots : requestHandled(s)
    \/ TickMs

SpecAbuse == Init /\ [][NextAbuse]_vars

\* the address is blocked, or has no abuse key, and one request of it has
\* passed preventPathTraversal
InitGate ==
    /\ InitIdle
    /\ InitNoRange
    /\ InitFolders
    /\ InitEmpty
    /\ abuse \in {NoAbuseKey, [score |-> BlockScore, exp |-> AbuseTtl]}
    /\ gate = [s \in GateSlots |->
                 IF s = "g1" THEN [IdleGate EXCEPT !.pc = "detectAbuse"]
                 ELSE IdleGate]
    /\ arrivals = 1

\* rate-limit checks and requests at the abuse gate, with store operations
\* that fail
NextGate ==
    \/ \E failure \in StoreFailures : checkRateLimit(failure)
    \/ \E failure \in AbuseFailures : detectAbuse("g1", failure)
    \/ requestHandled("g1")
    \/ TickMs

SpecGate == InitGate /\ [][NextGate]_vars

(* ====================== migration specification ======================= *)

\* u1 (free) has a file that was downloaded just now, and u2 (admin) has a
\* file that was last accessed HotToColdDays days ago; both are on the hot
\* tier
InitMigration ==
    /\ InitIdle
    /\ InitNoRange
    /\ InitNoAbuse
    /\ InitFolders
    /\ files = <<[UploadedFile(2, 0) EXCEPT !.downloads = 1,
                                            !.lastDownloadAt = 0],
                 UploadedAdminFile(1, -HotToColdDays)>>
    /\ blobs = {1, 2}
    /\ quota = [u \in Users |->
                  [exists |-> TRUE, storage |-> IF u = "u1" THEN 2 ELSE 1,
                   files |-> 1, isOverQuota |-> FALSE]]

NextMigration ==
    \/ \E w \in Migrators, id \in FileIds : processColdMigrations(w, id)
    \/ \E w \in Migrators, id \in FileIds : processHotMigrations(w, id)
    \/ \E w \in Migrators, id \in FileIds, tier \in Tiers : forceMigrate(w, id, tier)
    \/ \E w \in Migrators, ioFail \in BOOLEAN : migrateFileMigrate(w, ioFail)
    \/ \E w \in Migrators, saveFails \in BOOLEAN : migrateFileUpdateTier(w, saveFails)
    \/ \E w \in Migrators, saveFails \in BOOLEAN : migrateFileMarkFailed(w, saveFails)
    \/ Tick

SpecMigration == InitMigration /\ [][NextMigration]_vars

(* ===================== tier cache specification ======================= *)

\* migrations beside the downloads of the owners; the downloads carry a
\* Range header, so that no counter update follows them
NextTierCache ==
    \/ \E w \in Migrators, id \in FileIds, tier \in Tiers : forceMigrate(w, id, tier)
    \/ \E w \in Migrators, ioFail \in BOOLEAN : migrateFileMigrate(w, ioFail)
    \/ \E w \in Migrators, saveFails \in BOOLEAN : migrateFileUpdateTier(w, saveFails)
    \/ \E w \in Migrators, saveFails \in BOOLEAN : migrateFileMarkFailed(w, saveFails)
    \/ \E k \in Tasks, id \in FileIds :
          prepareDownload(k, id, files[id].userId,
                          [bytes |-> TRUE, range |-> <<"0", "-", "0">>], NoPassword)
    \/ Tick

SpecTierCache == InitMigration /\ [][NextTierCache]_vars

(* ====================== quota specification =========================== *)

\* the quota documents of a user: none yet, or a usage up to the limits of
\* the free role
QuotaDocs ==
    {NoQuota} \cup
    {[exists |-> TRUE, storage |-> s, files |-> f, isOverQuota |-> FALSE] :
        s \in 0..FreeMaxStorage, f \in 0..FreeMaxFiles}

\* the sizes asked for: up to one byte more than the largest file of the
\* free role
QuotaSizes == 1..(FreeMaxFileSize + 1)

\* no upload yet; u1 (free) has any usage, u2 (admin) has none or one above
\* the limits of the free role
InitQuota ==
    /\ InitIdle
    /\ InitNoRange
    /\ InitNoAbuse
    /\ InitFolders
    /\ blobs = {}
    /\ files = <<>>
    /\ quota \in {q \in [Users -> QuotaDocs] :
                    \/ ~q["u2"].exists
                    \/ /\ q["u2"].storage = FreeMaxStorage
                       /\ q["u2"].files = FreeMaxFiles}

NextQuota ==
    \E u \in Users, size \in QuotaSizes : initializeUpload(u, size, FALSE, "none", 0)

SpecQuota == InitQuota /\ [][NextQuota]_vars

(* ====================== worker specification ========================== *)

NextWorkers ==
    \/ \E loop \in Loops, n \in 0..MaxItems : runWorker(loop, n)
    \/ \E failure \in ItemFailures : processItem(failure)
    \/ runDone

SpecWorkers == Init /\ [][NextWorkers]_vars

(* ======================= timer specification ========================== *)

\* the worker has not been started; some items are due
InitTimer ==
    /\ InitRequests
    /\ InitNoSignal
    /\ InitNoRange
    /\ InitNoAbuse
    /\ InitFolders
    /\ InitEmpty
    /\ wk = StoppedWorker
    /\ runs = [r \in RunSlots |-> IdleRun]
    /\ pending \in SUBSET Items
    /\ failing \in SUBSET pending
    /\ InitNoSweep
    /\ InitNoBandwidth

NextTimer ==
    \/ \E r \in RunSlots : start(r)
    \/ \E r \in RunSlots : intervalFires(r)
    \/ stop
    \/ \E r \in RunSlots : runQuery(r)
    \/ \E r \in RunSlots : runBeginItem(r)
    \/ \E r \in RunSlots, failure \in ItemFailures : runEndItem(r, failure)
    \/ \E r \in RunSlots : runReturn(r)

SpecTimer == InitTimer /\ [][NextTimer]_vars

\* the expiry worker keeps ticking: it is never stopped, every run that has
\* begun goes on, and the timer fires again and again while it is armed
NextTicking ==
    \/ \E r \in RunSlots : start(r)
    \/ \E r \in RunSlots : intervalFires(r)
    \/ \E r \in RunSlots : runQuery(r)
    \/ \E r \in RunSlots : runBeginItem(r)
    \/ \E r \in RunSlots, failure \in ItemFailures : runEndItem(r, failure)
    \/ \E r \in RunSlots : runReturn(r)

Ticking ==
    \A r \in RunSlots :
       /\ WF_vars(start(r))
       /\ WF_vars(intervalFires(r))
       /\ WF_vars(runQuery(r))
       /\ WF_vars(runBeginItem(r))
       /\ WF_vars(\E failure \in ItemFailures : runEndItem(r, failure))
       /\ WF_vars(runReturn(r))

SpecTicking == InitTimer /\ [][NextTicking]_vars /\ Ticking

(* ====================== shutdown specification ========================= *)

\* the process after start(): the worker is started, its first run is over
\* and its timer is armed
InitShutdown ==
    /\ InitRequests
    /\ InitNoSignal
    /\ InitNoSweep
    /\ InitNoBandwidth
    /\ InitNoRange
    /\ InitNoAbuse
    /\ InitFolders
    /\ InitEmpty
    /\ wk = [isRunning |-> TRUE, intervalId |-> TRUE, started |-> TRUE]
    /\ runs = [r \in RunSlots |-> IdleRun]
    /\ pending \in SUBSET Items
    /\ failing = {}

\* the steps of the worker while the process lives
workerStep ==
    /\ ~server.exited
    /\ \/ \E r \in RunSlots : intervalFires(r)
       \/ \E r \in RunSlots : runQuery(r)
       \/ \E r \in RunSlots : runBeginItem(r)
       \/ \E r \in RunSlots : runEndItem(r, "none")
       \/ \E r \in RunSlots : runReturn(r)

NextShutdown ==
    \/ workerStep
    \/ request
    \/ respond
    \/ onSignal
    \/ redisDisconnect
    \/ databaseDisconnect
    \/ gracefulShutdown
    \/ shutdown

SpecShutdown == InitShutdown /\ [][NextShutdown]_vars

(* ======================= sweep specification ========================== *)

\* the days on which the record of the session was last saved
UpdatedAts == {-(OldSessionDays + 1), -OldSessionDays, -1, 0}

\* the records a session can have left: expiresAt is the day of the
\* creation plus sessionTtl, and no save precedes the creation
SessionDocs ==
    {d \in [exists : {TRUE}, status : LiveStatuses \cup TerminalStatuses,
            updatedAt : UpdatedAts,
            expiresAt : {u + SessionTtl : u \in UpdatedAts}] :
        d.updatedAt >= d.expiresAt - SessionTtl}

\* a session record or none, and a staging directory or none
InitSweep ==
    /\ InitRequests
    /\ InitNoSignal
    /\ InitNoTimer
    /\ InitNoRange
    /\ InitNoAbuse
    /\ InitFolders
    /\ InitEmpty
    /\ sessionDoc \in SessionDocs \cup {NoDoc}
    /\ tempDir \in [exists : {TRUE}, old : BOOLEAN] \cup {NoDir}
    /\ sweeper = IdleSweeper
    /\ InitNoBandwidth

NextSweep ==
    \/ cleanExpiredSessions
    \/ cleanOrphanedTempDirs
    \/ cleanOldSessions
    \/ cleanup
    \/ cleanOrphanedFolders
    \/ stageChunk
    \/ \E status \in {"completed", "failed"} : endSession(status)
    \/ hourPasses
    \/ dayPasses

SpecSweep == InitSweep /\ [][NextSweep]_vars

(* ===================== bandwidth specification ======================== *)

\* a quota document with some usage, and a call of addBandwidth on a date
\* that is not before the last reset
InitBandwidth ==
    /\ InitRequests
    /\ InitNoSignal
    /\ InitNoTimer
    /\ InitNoSweep
    /\ InitNoRange
    /\ InitNoAbuse
    /\ InitFolders
    /\ InitEmpty
    /\ bandwidth \in [daily : 0..MaxSize, monthly : 0..MaxSize, lastReset : Dates]
    /\ bandwidth.daily <= bandwidth.monthly
    /\ bwCall \in [done : {FALSE}, now : Dates, bytes : 0..MaxSize,
                    before : {NoBandwidth}]
    /\ DateLeq(bandwidth.lastReset, bwCall.now)

NextBandwidth == addBandwidthCall

SpecBandwidth == InitBandwidth /\ [][NextBandwidth]_vars

(* ------------------- properties of the upload engine ------------------- *)

StatusArrows ==
    {<<"pending", "uploading">>, <<"uploading", "assembling">>,
     <<"assembling", "completed">>, <<"assembling", "failed">>}
    \cup (LiveStatuses \X {"failed", "expired"})

\* C1: the durable status of a session (of a positive size) changes only
\* along the arrows of the state machine (pending -> uploading -> assembling
\* -> completed | failed, live -> failed, live -> expired); a terminal status
\* never changes again
C1_StatusFollowsArrows ==
    [][(sess.exists /\ sess.totalSize >= 1 /\ sess'.status # sess.status)
          => <<sess.status, sess'.status>> \in StatusArrows]_vars

\* C2: the durable completedChunks list holds at most one entry per chunk
\* index in every reachable state
C2_OneEntryPerIndex == \A i \in ChunkIdx : sess.completedChunks[i] <= 1

\* the durable session is live: its status is pending, uploading or
\* assembling and it has not expired
LiveSession ==
    sess.exists /\ sess.status \in LiveStatuses /\ now < sess.expiresAt

\* C3: on a live session, a chunk call that posts again a chunk whose index
\* the durable session already records answers already_uploaded and leaves
\* the staged chunk, the volatile chunk set and the durable session unchanged
C3_RepostIsNoOp ==
    [][\A p \in Procs, i \in ChunkIdx :
          (/\ LiveSession
           /\ i < sess.totalChunks
           /\ sess.completedChunks[i] > 0
           /\ uploadChunkBegin(p, i,
                  getExpectedChunkSize(i, sess.totalChunks, ChunkSize,
                                       sess.totalSize), TRUE))
          => (/\ last' = [op |-> "chunk", code |-> "already_uploaded"]
              /\ UNCHANGED <<staged, chunksKey, sess>>)]_vars

\* C9: the File record of a completed session has the size the session
\* announced (File.size = totalSize)
C9_FileSizeIsTotalSize ==
    (sess.status = "completed" /\ sess.fileId \in DOMAIN files)
       => files[sess.fileId].size = sess.totalSize

\* a complete call by the owner of a session that resolves, made while the
\* volatile chunk set has fewer than totalChunks members
IncompleteComplete(p, u) ==
    /\ SessionFound
    /\ SessionView.userId = u
    /\ Cardinality(ChunkMembers) < SessionView.totalChunks
    /\ completeUploadBegin(p, u)

DurablyUnchanged == UNCHANGED <<sess, files, blobs, staged, quota>>

LiveFilesOf(u) ==
    {id \in DOMAIN files : files[id].userId = u /\ ~files[id].isDeleted}

RECURSIVE SumOfSizes(_)
SumOfSizes(S) ==
    IF S = {} THEN 0
    ELSE LET id == CHOOSE x \in S : TRUE
         IN  files[id].size + SumOfSizes(S \ {id})

\* every operation of the file side has run to its end
NoTaskInFlight == \A k \in Tasks : task[k].pc = "idle"

\* C4: once the operations that delete files have completed, the quota of
\* every user records the total size and the number of the user's File
\* records that are not deleted
C4_QuotaConservation ==
    NoTaskInFlight =>
       \A u \in Users :
          /\ quota[u].storage = SumOfSizes(LiveFilesOf(u))
          /\ quota[u].files = Cardinality(LiveFilesOf(u))

\* C5: once the counter updates of all prepared non-range downloads have
\* finished, the download counter of every file has grown by the number of
\* downloads prepared for it
C5_NoIncrementLost ==
    (\A k \in Tasks : task[k].op # "increment") =>
       \A id \in DOMAIN files : files[id].downloads = prepared[id]

\* C6: the stored download counter and the stored lastAccessAt and
\* lastDownloadAt of a file never decrease from one state to the next
C6_MonotoneCounters ==
    [][\A id \in DOMAIN files :
          /\ files'[id].downloads >= files[id].downloads
          /\ files'[id].lastAccessAt >= files[id].lastAccessAt
          /\ files'[id].lastDownloadAt >= files[id].lastDownloadAt]_vars

(* -------------------- properties of the folder tree -------------------- *)

\* following parentId from folder id reaches the root within the given
\* number of steps
RECURSIVE ReachesRoot(_, _)
ReachesRoot(id, steps) ==
    IF id = NoFolder THEN TRUE
    ELSE IF steps = 0 THEN FALSE
    ELSE ReachesRoot(folders[id].parentId, steps - 1)

\* C7: once the moves have completed, following parentId from any folder
\* reaches the root without visiting a folder twice (no folder is its own
\* ancestor)
C7_NoFolderIsItsOwnAncestor ==
    (\A k \in Movers : mv[k].pc = "idle") =>
       \A id \in FolderIds : ReachesRoot(id, Cardinality(FolderIds))

(* ------------------- properties of the rate limiter -------------------- *)

\* the answers given inside the window that ends at time t
AnswersIn(t) ==
    {i \in DOMAIN answers :
        /\ answers[i].at > t - WindowSeconds * MsPerSecond
        /\ answers[i].at <= t}

Denied(a) ==
    ~a.allowed /\ 1 <= a.retryAfter /\ a.retryAfter <= WindowSeconds

SessionGone == ~sess.exists \/ sess.expiresAt <= now

\* a chunk (with a body), status, resume or complete call is handled
CallOnSession ==
    \/ \E p \in Procs, i \in ChunkInputs, len \in ChunkLens \ {0},
          hashOk \in BOOLEAN : uploadChunkBegin(p, i, len, hashOk)
    \/ \E p \in Procs, u \in Users : completeUploadBegin(p, u)
    \/ getUploadStatus
    \/ \E u \in Users : resumeUpload(u)

\* C12: a chunk, status, resume or complete call on a session that does not
\* exist or whose expiresAt has passed is answered SESSION_EXPIRED and
\* writes nothing to the staging area, the volatile store or the durable
\* session
C12_GoneSessionIsRejected ==
    [][(SessionGone /\ CallOnSession) =>
          /\ last'.code = "SESSION_EXPIRED"
          /\ UNCHANGED <<staged, sessKey, chunksKey, sess>>]_vars

\* the chunk of a call is one that a live session has to refuse: its index
\* is out of range, or the chunk is not yet in the chunk set and its body
\* is empty, has not the expected length or does not match the MD5 sent
BadChunk(i, len, hashOk) ==
    /\ SessionFound
    /\ \/ i < 0
       \/ i >= SessionView.totalChunks
       \/ /\ i \notin ChunkMembers
          /\ \/ len = 0
             \/ ~hashOk
             \/ len # (IF i = SessionView.totalChunks - 1
                          /\ SessionView.totalSize % ChunkSize # 0
                       THEN SessionView.totalSize % ChunkSize
                       ELSE ChunkSize)

\* a chunk call that is answered with one of the codes writes no chunk to
\* the staging area and changes neither the chunk set nor the durable
\* session
RefusedWritesNothing(codes) ==
    (last'.op = "chunk" /\ last'.code \in codes) =>
       UNCHANGED <<staged, chunksKey, sess>>

\* the call uploadChunk(i, len bytes, hash) handled now is answered code
ChunkAnswered(p, i, len, hashOk, code) ==
    ENABLED (uploadChunkBegin(p, i, len, hashOk) /\ last'.code = code)

C14_ZeroSizeIsRejected ==
    [][\A u \in Uploaders, asText \in BOOLEAN, h \in HashInputs :
          initializeUpload(u, 0, asText, h, 0) =>
             /\ last'.code = "VALIDATION_ERROR"
             /\ UNCHANGED <<sess, sessKey>>]_vars

\* a complete, abort or resume of a user who does not own the session that
\* the call resolves
StrangerCall ==
    \E u \in Users :
       /\ SessionFound
       /\ u # SessionView.userId
       /\ \/ \E p \in Procs : completeUploadBegin(p, u)
          \/ \E p \in Procs : abortUploadBegin(p, u)
          \/ resumeUpload(u)

Aborted ==
    /\ sess.status = "failed"
    /\ sess.error = "ABORTED"
    /\ sessKey = NoKey
    /\ chunksKey = NoChunksKey

IsNumber(text) ==
    text # <<>> /\ \A n \in 1..Len(text) : text[n] \in DigitChars

\* the number of dashes of the text
Dashes(text) == Cardinality({n \in 1..Len(text) : text[n] = "-"})

\* the range that the header asks for of a file of the given size: the
\* three accepted forms bytes=a-b, bytes=a- and bytes=-n when the range
\* they name is satisfiable, and no range otherwise
RequestedRange(header, size) ==
    LET a == beforeDash(header.range)
        b == afterDash(header.range)
    IN  IF ~header.bytes \/ Dashes(header.range) # 1
        THEN NoRange
        ELSE IF IsNumber(a) /\ IsNumber(b)
        THEN IF parseInt(a) <= parseInt(b) /\ parseInt(b) < size
             THEN [ok |-> TRUE, start |-> parseInt(a), end |-> parseInt(b)]
             ELSE NoRange
        ELSE IF IsNumber(a) /\ b = <<>>
        THEN IF parseInt(a) < size
             THEN [ok |-> TRUE, start |-> parseInt(a), end |-> size - 1]
             ELSE NoRange
        ELSE IF a = <<>> /\ IsNumber(b)
        THEN IF 1 <= parseInt(b) /\ parseInt(b) <= size
             THEN [ok |-> TRUE, start |-> size - parseInt(b), end |-> size - 1]
             ELSE NoRange
        ELSE NoRange

\* C17: for every file size >= 1 and every header, parseRange returns the
\* range of the three accepted forms when it is satisfiable and rejects
\* every other header, and a range it returns lies within the file
C17_ParseRangeAcceptsTheThreeForms ==
    parsed.done =>
       /\ parsed.range = RequestedRange(rangeHeader, rangeSize)
       /\ parsed.range.ok =>
             (0 <= parsed.range.start /\ parsed.range.start <= parsed.range.end
              /\ parsed.range.end < rangeSize)

\* the download of file id by user u finds the file and is allowed
Served(id, u) ==
    /\ id \in DOMAIN files
    /\ Cached(id) \/ ~(files[id].isDeleted \/ isExpired(files[id]))
    /\ files[id].userId = u \/ isAdmin(u)

\* C18: a prepareDownload with a Range header that parseRange rejects for
\* the size of the file is answered INVALID_RANGE and starts no counter
\* update
C18_BadRangeIsRefused ==
    [][\A k \in Tasks, id \in FileIds, u \in Users, header \in DownloadHeaders :
          (/\ Served(id, u)
           /\ header # NoHeader
           /\ ~parseRange(header, files[id].size).ok
           /\ prepareDownload(k, id, u, header, NoPassword)) =>
             /\ last'.code = "INVALID_RANGE"
             /\ UNCHANGED <<files, task, prepared, quota>>]_vars

\* the effect of one download on the File record
DownloadEffect(f) ==
    [f EXCEPT !.downloads = @ + 1,
              !.lastDownloadAt = now,
              !.lastAccessAt = now,
              !.expiresAt = IF @ = NoDate THEN NoDate
                            ELSE Max(@, now + ExtensionDays)]

\* C19: when the counter update of a download without a Range header
\* finishes, downloads has grown by one, lastDownloadAt is now and
\* expiresAt, unless null, is the later of its old value and now +
\* extensionDays; a download with a Range header leaves the File record
\* unchanged and starts no counter update
C19_EffectOfADownload ==
    [][/\ \A k \in Tasks :
             incrementDownloadSave(k) =>
                files'[task[k].file] = DownloadEffect(files[task[k].file])
       /\ \A k \in Tasks, id \in FileIds, u \in Users,
             header \in DownloadHeaders \ {NoHeader} :
             prepareDownload(k, id, u, header, NoPassword) =>
                UNCHANGED <<files, task, prepared>>]_vars

\* C20: a file whose expiresAt is null is not in the result of the query of
\* the expiry worker, is not taken for expired, and no deletion by the
\* expiry worker is in flight for it, whatever the time and the downloads
C20_NullExpiryNeverExpires ==
    /\ \A id \in DOMAIN files :
          files[id].expiresAt = NoDate =>
             (id \notin findExpiredFiles /\ ~isExpired(files[id]))
    /\ \A k \in Tasks :
          task[k].op = "expire" => files[task[k].file].expiresAt # NoDate

\* at the last tick the file without expiry date has been downloaded and
\* is still there, and the expiry worker has deleted the other file
C20_SurvivesTheWorker ==
    /\ now = MaxTime
    /\ files[2].expiresAt = NoDate
    /\ files[2].downloads > 0
    /\ ~files[2].isDeleted
    /\ files[1].isDeleted
    /\ last.op = "expire"

\* the access decision: the password of the file, if it has one, is the
\* one supplied, and a file that is not public is asked for by its owner or
\* by an admin
AccessAllowed(f, u, password) ==
    /\ f.password # NoPassword => password = f.password
    /\ ~f.isPublic => /\ u # Anonymous
                      /\ f.userId = u \/ isAdmin(u)

\* C21: a prepareDownload that finds the file yields a stream exactly when
\* the access decision allows it (public without a password: anyone; with a
\* password: the supplied password is the stored one; not public: the
\* caller is the owner or an admin as well), and otherwise fails with
\* AUTHORIZATION_ERROR and starts nothing
C21_StreamOnlyWhenAllowed ==
    [][\A k \in Tasks, id \in FileIds, u \in Callers,
          password \in Passwords \cup {NoPassword} :
          (/\ prepareDownload(k, id, u, NoHeader, password)
           /\ last'.code # "NOT_FOUND") =>
             IF AccessAllowed(files[id], u, password)
             THEN last'.code = "200"
             ELSE /\ last'.code = "AUTHORIZATION_ERROR"
                  /\ UNCHANGED <<task, prepared>>]_vars

\* the deletion of file id is over: the record is marked deleted and no
\* delete of it is in flight
DeletionFinished(id) ==
    /\ files[id].isDeleted
    /\ \A k \in Tasks :
          task[k].file = id => task[k].op \notin {"delete", "forceDelete", "expire"}

\* C22: once a file has been deleted by deleteFile, forceDeleteFile or the
\* expiry sweep, every later prepareDownload (and so getFileMetadata) for it
\* fails with NOT_FOUND, also while a metadata cache entry written before
\* the deletion is within its TTL
C22_DeletedFileIsNotFound ==
    [][\A k \in Tasks, id \in FileIds, u \in Users, header \in DownloadHeaders :
          (/\ DeletionFinished(id)
           /\ prepareDownload(k, id, u, header, NoPassword)) =>
             last'.code = "NOT_FOUND"]_vars

\* the entries of the sorted set that a check at nowMs does not prune
Pruned == InWindow(LiveScores, nowMs - WindowSeconds * MsPerSecond)

\* C23: a rate-limit check that is denied leaves in the sorted set exactly
\* the entries that the pruning left, and a check that the store answers
\* with allowed adds one entry, scored with the time of the check, to them
C23_EntryOnlyWhenAllowed ==
    [][\A failure \in StoreFailures :
          checkRateLimit(failure) =>
             LET answer == answers'[Len(answers')]
             IN  /\ ~answer.allowed => zset'.scores = Pruned
                 /\ answer.allowed /\ ~answer.failed =>
                       zset'.scores = Append(Pruned, nowMs)]_vars

\* C24: when a store operation fails during a rate-limit check, the check
\* answers allowed; when one fails during the check of the abuse gate, the
\* request goes on to its route; in both cases no error is answered
C24_ChecksFailOpen ==
    [][/\ \A failure \in StoreFailures :
             checkRateLimit(failure) =>
                LET answer == answers'[Len(answers')]
                IN  answer.failed =>
                       answer.allowed /\ last'.code = "allowed"
       /\ \A s \in GateSlots, failure \in AbuseFailures :
             (/\ detectAbuse(s, failure)
              /\ \/ failure = "get"
                 \/ failure = "ttl" /\ abuseScore >= BlockScore) =>
                /\ gate'[s].pc = "route"
                /\ last' = NoResponse]_vars

\* a check of a full window was answered allowed because the store failed,
\* and a request of a blocked address is on its way to its route
C24_FailedOpen ==
    /\ \E i \in DOMAIN answers :
          /\ answers[i].failed
          /\ answers[i].entries >= Limit
    /\ gate["g1"].pc = "route"
    /\ abuseScore >= BlockScore

\* C25: a request turned away by the path-traversal filter and a chunk
\* request that fails validation raise the abuse counter of the address;
\* while the counter is at the block score or above, a request of the
\* address is answered IP_BLOCKED; once the TTL of the key has run out,
\* requests are admitted again
C25_AbuseCounterBlocks ==
    [][/\ \A s \in GateSlots :
             preventPathTraversal(s, TRUE) =>
                /\ abuseScore' > abuseScore
                /\ abuseScore >= BlockScore => last'.code = "IP_BLOCKED"
       /\ \A s \in GateSlots :
             uploadChunkRefused(s) => abuseScore' > abuseScore
       /\ \A s \in GateSlots :
             detectAbuse(s, "none") =>
                IF abuseScore >= BlockScore
                THEN last'.code = "IP_BLOCKED" /\ gate'[s] = IdleGate
                ELSE gate'[s].pc = "route"]_vars

\* C26: the expiry batch deletes every file it selects (expiresAt <= now,
\* not deleted), and when the deletion of a selected file has finished, the
\* file is marked deleted, its blob is gone, its metadata cache entry is
\* gone, and the quota of its owner is lower by the size of the file and by
\* one file
C26_ExpiryBatchDeletesSelected ==
    [][/\ \A k \in Tasks, id \in FileIds :
             deleteExpiredFile(k, id) => task'[k].op = "expire"
       /\ \A k \in Tasks :
             (task[k].op = "expire" /\ deleteFileRemoveFile(k)) =>
                LET id == task[k].file
                    u == files[id].userId
                IN  /\ files'[id].isDeleted
                    /\ id \notin blobs'
                    /\ metaCache'[id] = 0
                    /\ quota'[u].storage = quota[u].storage - files[id].size
                    /\ quota'[u].files = quota[u].files - 1]_vars

\* C27: in the expiry, migration and cleanup workers the failure of one
\* item is counted or logged and the loop goes on with the items left, and
\* no exception leaves run()
C27_BatchContinuesAfterFailure ==
    /\ [][\A failure \in ItemFailures \ {"none"} :
             processItem(failure) =>
                /\ batch'.loop = batch.loop
                /\ batch'.left = batch.left - 1
                /\ batch'.logged = batch.logged + 1]_vars
    /\ [](~batch.escaped)

\* C28: the migration worker starts no migration to the cold tier for a
\* file whose owner has role premium or admin
C28_NoColdMigrationForPremium ==
    [][\A w \in Migrators, id \in FileIds :
          processColdMigrations(w, id) =>
             ~isPremiumOrAdmin(files[id].userId)]_vars

\* C29: the blob of a file that is not deleted and whose migrationStatus is
\* not in_progress is in the tier that storageTier names and in no other
C29_BlobInTheNamedTier ==
    \A id \in DOMAIN files :
       (~files[id].isDeleted /\ files[id].migrationStatus # "in_progress") =>
          \A tier \in Tiers : InTier(id, tier) <=> files[id].storageTier = tier

\* the limits of user u, other than -1, that an upload of the size on top
\* of usage q violates
ViolatedLimits(u, q, size) ==
    {code \in {"FILE_TOO_LARGE", "STORAGE_EXCEEDED", "FILE_COUNT_EXCEEDED"} :
        LET limit == getEffectiveLimit(u, CASE code = "FILE_TOO_LARGE" -> "maxFileSize"
                                            [] code = "STORAGE_EXCEEDED" -> "maxStorage"
                                            [] OTHER -> "maxFiles")
        IN  /\ limit # Unlimited
            /\ CASE code = "FILE_TOO_LARGE" -> size > limit
                  [] code = "STORAGE_EXCEEDED" -> q.storage + size > limit
                  [] OTHER -> q.files >= limit}

\* the elements of a sequence
Range(s) == {s[i] : i \in DOMAIN s}

\* canUpload answers allowed exactly when no limit is violated and gives
\* one reason per violated limit, and init creates a session exactly when
\* canUpload allows it
CanUploadDecides(u, size) ==
    LET q == getOrCreate(quota[u])
        violated == ViolatedLimits(u, q, size)
        reasons == canUploadReasons(u, q, size)
    IN  /\ canUpload(u, q, size) <=> violated = {}
        /\ Range(reasons) = violated
        /\ Len(reasons) = Cardinality(violated)
        /\ sess'.exists <=> violated = {}
        /\ violated # {} =>
              /\ last'.code = "VALIDATION_ERROR"
              /\ UNCHANGED <<sess, sessKey, chunksKey, staged, files, blobs>>

\* C30 as stated: canUpload answers allowed = false exactly when a limit
\* other than -1 is violated, with one reason per violated limit; init
\* creates a session only when canUpload allows it and creates nothing
\* otherwise
C30_InitCreatesNothingWhenDenied ==
    [][\A u \in Users, size \in QuotaSizes :
          initializeUpload(u, size, FALSE, "none", 0) =>
             /\ CanUploadDecides(u, size)
             /\ ViolatedLimits(u, getOrCreate(quota[u]), size) # {} =>
                   UNCHANGED quota]_vars

\* C30, amended: as above, but a denied init creates no session, no cache
\* entry and no chunk, while the quota document of a user who has none is
\* created with a usage of zero
C30_InitCreatesNoSessionWhenDenied ==
    [][\A u \in Users, size \in QuotaSizes :
          initializeUpload(u, size, FALSE, "none", 0) =>
             /\ CanUploadDecides(u, size)
             /\ quota' = [quota EXCEPT ![u] = getOrCreate(@)]]_vars

\* the free user at the file count limit was denied, and nothing of a
\* session exists
C30_DeniedAtTheFileCount ==
    /\ last = [op |-> "init", code |-> "VALIDATION_ERROR"]
    /\ quota["u1"].files = FreeMaxFiles
    /\ quota["u1"].storage = 0
    /\ ~sess.exists

(* ------------------------------ C31 ------------------------------------ *)

\* C31: for the upload session at most one File record is ever created and
\* quota.addFile is applied at most once, however often and however
\* concurrently complete is called
C31_OneFilePerSession ==
    /\ Len(files) <= 1
    /\ \A u \in Users : quota[u].files <= 1

(* ------------------------------ C32 ------------------------------------ *)

\* the invocations of run() of the worker that are in flight
RunsInFlight == {r \in RunSlots : runs[r].pc # "idle"}

\* C32: a batch that is still running when the interval elapses does not
\* run beside the batch of the next tick: at most one run of the worker
\* executes at a time, and no item is worked on by two runs at once
C32_OneRunAtATime ==
    /\ Cardinality(RunsInFlight) <= 1
    /\ \A r1, r2 \in RunSlots :
          (r1 # r2 /\ runs[r1].pc = "item" /\ runs[r2].pc = "item")
             => runs[r1].cur # runs[r2].cur

(* ------------------------------ C33 ------------------------------------ *)

\* C33: status and resume report chunk index i as completed whenever i is
\* in the volatile chunk set or in the durable completedChunks list, also
\* after the volatile keys of a live session were lost and the session was
\* rehydrated from the durable store
C33_StatusReportsTheUnion ==
    [][(last'.op \in {"status", "resume"} /\ last'.code = "ok")
          => \A i \in getCompletedChunks \cup DocIndices(sess) :
                i \notin remainingChunks(SessionView.totalChunks)]_vars

(* ------------------------------ C34 ------------------------------------ *)

\* the path a folder has by its name and the path of its parent
PathByParent(g) ==
    IF folders[g].parentId = NoFolder THEN <<folders[g].name>>
    ELSE folders[folders[g].parentId].path \o <<folders[g].name>>

\* C34: once the folder operations have completed, every folder has
\* path = '/' + name (no parent) or parent.path + '/' + name, and
\* depth = (number of '/' in path) - 1; this holds for the moved folder and
\* for its descendants
C34_PathAndDepthFollowTheParent ==
    (\A k \in Movers : mv[k].pc = "idle")
       => \A g \in FolderIds :
             /\ folders[g].path = PathByParent(g)
             /\ folders[g].depth = Len(folders[g].path) - 1

(* ------------------------------ C35 ------------------------------------ *)

\* a step of one of the two orphan sweeps
OrphanSweepStep ==
    \/ sweeper.worker = "cleanOrphanedTempDirs" /\ sweeper'.worker # sweeper.worker
    \/ sweeper.service = "cleanOrphanedFolders" /\ sweeper'.service # sweeper.service

\* C35: the orphan sweep deletes the directory temp/<sessionId> only if the
\* session is absent or terminal and the mtime of the directory is more
\* than one hour ago
C35_OrphanSweepDeletesOldOrphansOnly ==
    [][(OrphanSweepStep /\ tempDir.exists /\ ~tempDir'.exists)
          => /\ ~sessionDoc.exists \/ sessionDoc.status \in TerminalStatuses
             /\ tempDir.old]_vars

(* ------------------------------ C36 ------------------------------------ *)

\* C36: a session record in a terminal status is removed from the durable
\* store by background cleanup only when at least 7 days have passed since
\* it was last updated
C36_TerminalSessionKeptSevenDays ==
    [][(sessionDoc.exists /\ sessionDoc.status \in TerminalStatuses /\ ~sessionDoc'.exists)
          => now - sessionDoc.updatedAt >= OldSessionDays]_vars

(* ------------------------------ C37 ------------------------------------ *)

\* no migration of the file is in flight
NotMigrating(id) == \A w \in Migrators : mig[w].pc = "idle" \/ mig[w].file # id

\* C37: after migrateFile has completed, the metadata a prepareDownload of
\* the file uses (the cache entry file:<fileId> or the durable record)
\* carries the storageTier of the durable File record
C37_MetadataHasTheDurableTier ==
    \A id \in DOMAIN files :
       (files[id].migrationStatus = "completed" /\ NotMigrating(id))
          => metadataTier(id) = files[id].storageTier

(* ------------------------------ C39 ------------------------------------ *)

\* the two dates are the same calendar day, the same calendar month
SameDay(d, e) == d.year = e.year /\ d.month = e.month /\ d.day = e.day
SameMonth(d, e) == d.year = e.year /\ d.month = e.month

\* C39: addBandwidth(bytes) resets the daily counter to 0 exactly when now
\* is on another calendar day than lastReset, resets the monthly counter to
\* 0 exactly when now is in another calendar month than lastReset, and then
\* adds bytes to both counters
C39_ResetsOnNewDayAndNewMonth ==
    bwCall.done =>
       LET b == bwCall.before
       IN  /\ bandwidth.daily =
                 (IF SameDay(b.lastReset, bwCall.now) THEN b.daily ELSE 0)
                 + bwCall.bytes
           /\ bandwidth.monthly =
                 (IF SameMonth(b.lastReset, bwCall.now) THEN b.monthly ELSE 0)
                 + bwCall.bytes

(* ------------------------------ C38 ------------------------------------ *)

\* C38: while the expiry worker keeps ticking, every file that is due and
\* whose own deletion does not fail is eventually deleted, also when the
\* deletion of other due files fails on every tick
C38_DueFileIsEventuallyDeleted ==
    \A i \in Items : (i \in pending /\ i \notin failing) ~> (i \notin pending)

(* ------------------------------ C40 ------------------------------------ *)

\* C40: after SIGINT or SIGTERM the server accepts no new request; the
\* process exits only with code 0, with no handler in flight and with both
\* stores closed; and no run of a worker executes while a store is closed
C40_OrderlyShutdown ==
    /\ server.signalled => ~server.listening
    /\ server.exited => /\ server.code = 0
                        /\ inflight = 0
                        /\ server.redis = "closed"
                        /\ server.mongo = "closed"
    /\ (~server.exited /\ "closed" \in {server.redis, server.mongo})
          => RunsInFlight = {}

====
